---- MODULE Spec2Model ----
(***************************************************************************)
(* A model of the Global Media Controller extension.                       *)
(*                                                                         *)
(*   background.js  MediaSessionManager   the coordinator (registry)       *)
(*   mediaAgent.js  MediaAgent            one agent per frame of a tab     *)
(*   popup.js       MediaControllerPopup  the control surface              *)
(*                                                                         *)
(* Spec      : the coordinator, fed by agents' snapshots, browser tab      *)
(*             events, popup commands and global shortcuts.                *)
(* SpecPopup : the popup, fed by the coordinator's port messages and the   *)
(*             user's clicks.                                              *)
(*                                                                         *)
(* A session id `${tabId}:${frameId}` is the pair <<tabId, frameId>>.      *)
(* A Map is a sequence of records in insertion order (Map iteration order).*)
(* Of a session record and of a snapshot's state only the fields the       *)
(* checked properties read are kept (id, tabId, frameId, state.paused,     *)
(* lastActiveAt); title, url, icons and the other state fields are copied  *)
(* through by the code without influencing any branch.                     *)
(***************************************************************************)
EXTENDS Integers, Sequences, FiniteSets, TLC

\* ------------------------------------------------------------------ bounds
StartTime == 1000        \* Date.now() when the model starts (any value > 0)
TickMs == 150            \* the clock advances in steps of TickMs
MaxTicks == 2            \* number of clock steps explored
MaxInFlight == 1         \* asynchronous operations outstanding at a time
MaxPending == 2          \* tabs.get lookups outstanding when order is studied
MaxRandomFrameId == 2    \* Math.random() frame ids are drawn from 0..this
PopupTickMs == 500       \* clock step while the popup is observed
MaxDrags == 2            \* startDrag closures registered at the same time
MaxTimeLen == 5          \* characters of a time text
MaxElements == 2         \* media elements in the document at a time
MaxTimers == 2           \* pending calls of findAndAttachMedia
MaxVirtuals == 2         \* virtual elements an agent makes
MaxOutbox == 1               \* snapshots sent and not yet delivered
MaxListeners == 2        \* registrations of a handler on one element

\* ------------------------------------------------------- program constants
throttleMs == 300        \* background.js: minimum ms between progress broadcasts
SeekStep == 10           \* background.js: delta of the seek shortcuts
OptimisticWindowMs == 1000  \* popup.js: life of an optimistic paused value
MaxRetries == 5          \* mediaAgent.js: retries of findAndAttachMedia
CoalesceMs == 250        \* mediaAgent.js: delay of the updateThrottle timer
FullVolume == 100        \* mediaAgent.js: volume 1, volumes being in hundredths
NoVolume == -1           \* mediaAgent.js: _volume, or a slider value, undefined

\* ------------------------------------------------------------ the universe
Tabs == {1, 2}
TopFrame == 0
SubFrame == 1
\* tab 1 has a top frame and one sub-frame, tab 2 a top frame only
Contexts == {<<1, TopFrame>>, <<1, SubFrame>>, <<2, TopFrame>>}
FramesOf(tab) == {c \in Contexts : c[1] = tab}
Null == <<>>
Undefined == [undefined |-> TRUE]
\* {}: an object without any of the properties looked for
EmptyObject == [empty |-> TRUE]
Ports == {"popup"}

VARIABLES
  now,                      \* Date.now()
  openTabs,                 \* browser: tabs that exist
  agentTabs,                \* tabs whose frames run a MediaAgent
  agentFrameId,             \* MediaAgent.frameId of the agent in each context
  sessions,                 \* MediaSessionManager.sessions
  lastActiveSessionId,      \* MediaSessionManager.lastActiveSessionId
  lastBroadcastTimestamps,  \* MediaSessionManager.lastBroadcastTimestamps
  ports,                    \* MediaSessionManager.ports
  lookups,                  \* updateSession: tabs.get(tabId) promises pending
  commands,                 \* forwardControlCommand: tabs.sendMessage pending
  out,                      \* messages posted to ports by the last handler
  ev,                       \* the last handler run, its input and what it saw
  snapLog,                  \* a log of processed snapshots (see Record)
  watch,                    \* what out, ev and snapLog record in this run
  popupSessions,            \* MediaControllerPopup.sessions
  optimisticStates,         \* MediaControllerPopup.optimisticStates
  cards,                    \* the session cards in #sessionsList
  listHidden,               \* #sessionsList carries the class "hidden"
  toggled,                  \* the last toggle of each session, and what followed
  drags,                    \* startDrag closures whose document listeners are on
  input,                    \* the argument a function under study is given
  result,                   \* what the function returned for it
  agent,                    \* the media agent of one frame
  page,                     \* the document the agent runs in
  outbox                    \* SESSION_UPDATE messages the agent has sent

coordVars == <<openTabs, agentTabs, agentFrameId, sessions, lastActiveSessionId,
               lastBroadcastTimestamps, ports, lookups, commands, snapLog>>
popupVars == <<popupSessions, optimisticStates, cards, listHidden, toggled,
               drags>>
\* the variables no handler of the coordinator or of the popup writes
agentVars == <<agent, page, outbox>>
restVars == <<watch, input, result, agentVars>>
vars == <<now, coordVars, popupVars, out, ev, restVars>>

\* out, ev and snapLog observe the run; they are read by no handler.  A
\* specification records the handlers named in watch ("out" for the messages
\* posted, "snapLog" for the snapshot log) and nothing of the others.
Observe(e) == IF e.op \in watch THEN e ELSE [op |-> "unobserved"]
\* Under "port" out is the queue of the messages on their way to the popup:
\* what a handler posts to a connected port is appended, and the popup's
\* message handlers take the head.
Addressed(messages) == SelectSeq(messages, LAMBDA m : m.to # {})
Post(messages) ==
  IF "port" \in watch THEN out \o Addressed(messages)
  ELSE IF "wire" \in watch THEN out
  ELSE IF "out" \in watch THEN messages ELSE <<>>
Received == IF "port" \in watch THEN Tail(out) ELSE Post(<<>>)
\* Under "wire" out is the queue of the CONTROL_COMMAND messages on their
\* way from the popup through forwardControlCommand to the agent: what the
\* popup sends is appended, and the agent's handleControlCommand takes the
\* head.
Wired(messages) == IF "wire" \in watch THEN out \o messages ELSE Post(<<>>)
Handled == IF "wire" \in watch THEN Tail(out) ELSE Post(<<>>)
\* what an event was about is recorded when watch holds "detail"
Detail(x) == IF "detail" \in watch THEN x ELSE <<>>

\* ------------------------------------------------------------ Map helpers
Ids(ss) == {ss[i].id : i \in 1..Len(ss)}
Has(ss, id) == id \in Ids(ss)
Get(ss, id) == ss[CHOOSE i \in 1..Len(ss) : ss[i].id = id]
\* (mutant) Map.set leaves the value of an existing key as it is
MapSetOnce(ss, rec) == IF Has(ss, rec.id) THEN ss ELSE Append(ss, rec)

\* Map.set: an existing key keeps its place, a new key goes last
MapSet(ss, rec) ==
  IF Has(ss, rec.id)
    THEN [i \in 1..Len(ss) |-> IF ss[i].id = rec.id THEN rec ELSE ss[i]]
    ELSE Append(ss, rec)
MapDelete(ss, id) == SelectSeq(ss, LAMBDA s : s.id # id)
TimestampOf(m, id) == IF id \in DOMAIN m THEN m[id] ELSE 0
SetTimestamp(m, id, t) == [k \in DOMAIN m \cup {id} |-> IF k = id THEN t ELSE m[k]]

\* ------------------------------------------- coordinator: pure operations
RECURSIVE Scan(_, _, _, _)
Scan(ss, i, mostRecent, mostRecentTime) ==
  IF i > Len(ss) THEN mostRecent
  ELSE IF ss[i].lastActiveAt > mostRecentTime
    THEN Scan(ss, i + 1, ss[i].id, ss[i].lastActiveAt)
    ELSE Scan(ss, i + 1, mostRecent, mostRecentTime)

\* (mutant) the comparison of lastActiveAt forgotten: the first session wins
findFirstSession(ss) == IF Len(ss) = 0 THEN Null ELSE ss[1].id

\* findMostRecentActiveSession(): first session, in Map order, whose lastActiveAt
\* is strictly greater than every earlier one; null when the Map is empty
findMostRecentActiveSession(ss) == Scan(ss, 1, Null, 0)

\* broadcastToPopups(message): the message, posted to every connected port
broadcastToPopups(message) == [msg |-> message, to |-> ports]

\* (mutant) the active pointer is not cleared when its session is removed
removeSessionStale(R, sessionId) ==
  IF Has(R.sessions, sessionId)
    THEN [sessions |-> MapDelete(R.sessions, sessionId),
          active |-> R.active,
          out |-> Append(R.out, broadcastToPopups(
                    [type |-> "SESSION_REMOVED", sessionId |-> sessionId]))]
    ELSE R

\* removeSession(sessionId) on the registry R = [sessions, active, out]
removeSession(R, sessionId) ==
  IF Has(R.sessions, sessionId)
    THEN LET ss == MapDelete(R.sessions, sessionId) IN
         [sessions |-> ss,
          active |-> IF R.active = sessionId
                       THEN findMostRecentActiveSession(ss)
                       ELSE R.active,
          out |-> Append(R.out, broadcastToPopups(
                    [type |-> "SESSION_REMOVED", sessionId |-> sessionId]))]
    ELSE R

\* (mutant) the loop over toRemove ends after the first id
RemoveOne(R, toRemove, i) ==
  IF i > Len(toRemove) THEN R ELSE removeSession(R, toRemove[i])

RECURSIVE RemoveAll(_, _, _)
RemoveAll(R, toRemove, i) ==
  IF i > Len(toRemove) THEN R
  ELSE RemoveAll(removeSession(R, toRemove[i]), toRemove, i + 1)

\* (mutant) the sessions of every tab are removed
removeSessionsForAnyTab(R, tabId) ==
  RemoveAll(R, [i \in 1..Len(R.sessions) |-> R.sessions[i].id], 1)

\* removeSessionsForTab(tabId): collect the tab's ids in Map order, remove each
removeSessionsForTab(R, tabId) ==
  LET mine == SelectSeq(R.sessions, LAMBDA s : s.tabId = tabId)
      toRemove == [i \in 1..Len(mine) |-> mine[i].id]
  IN RemoveAll(R, toRemove, 1)

Registry == [sessions |-> sessions, active |-> lastActiveSessionId, out |-> <<>>]

\* (mutant) the throttle compares with > instead of >=
shouldBroadcastStrict(hasPrev, isStateChange, lastBroadcast, t) ==
  isStateChange \/ (t - lastBroadcast) > throttleMs \/ ~hasPrev

\* (mutant) a paused/playing transition is throttled like a progress update
shouldBroadcastTimeOnly(hasPrev, isStateChange, lastBroadcast, t) ==
  (t - lastBroadcast) >= throttleMs \/ ~hasPrev

\* shouldBroadcast of updateSession
shouldBroadcast(hasPrev, isStateChange, lastBroadcast, t) ==
  isStateChange \/ (t - lastBroadcast) >= throttleMs \/ ~hasPrev

\* (mutant) a snapshot that pauses a session clears its lastActiveAt
newLastActiveAtCleared(hasPrev, prev, state, t) ==
  IF hasPrev /\ prev.state.paused /\ ~state.paused THEN t
  ELSE IF ~hasPrev /\ ~state.paused THEN t
  ELSE IF hasPrev /\ state.paused THEN 0
  ELSE IF hasPrev THEN prev.lastActiveAt ELSE t

\* (mutant) every playing snapshot, progress updates too, bumps lastActiveAt
newLastActiveAtWhilePlaying(hasPrev, prev, state, t) ==
  IF ~state.paused THEN t
  ELSE IF hasPrev THEN prev.lastActiveAt ELSE t

\* lastActiveAt of the record updateSession stores
newLastActiveAt(hasPrev, prev, state, t) ==
  IF hasPrev /\ prev.state.paused /\ ~state.paused THEN t
  ELSE IF ~hasPrev /\ ~state.paused THEN t
  ELSE IF hasPrev THEN prev.lastActiveAt ELSE t

\* the snapshot is an entry into the playing state: the session is created
\* playing, or its record was paused and the snapshot is playing
EntersPlaying(hasPrev, prev, state) ==
  ~state.paused /\ (hasPrev => prev.state.paused)

\* (mutant) a session that resumes playing does not become the active one
becomesActiveOnlyNew(hasPrev, prev, state) == ~hasPrev /\ ~state.paused

\* whether updateSession moves the active pointer to this session
becomesActive(hasPrev, prev, state) ==
  \/ hasPrev /\ prev.state.paused /\ ~state.paused
  \/ ~hasPrev /\ ~state.paused

\* tab.title of the tab that tabs.get(tabId) resolves to
TabTitle(tabId) == "tab"

\* sessionData.title || tab.title: a snapshot without a title, or with the
\* empty string for one, is given the title of its tab
titleOf(sessionData, tabId) ==
  IF "title" \in DOMAIN sessionData /\ sessionData.title # ""
    THEN sessionData.title ELSE TabTitle(tabId)

\* sessionData.artworkUrl, undefined when the snapshot has no such property
artworkUrlOf(sessionData) ==
  IF "artworkUrl" \in DOMAIN sessionData THEN sessionData.artworkUrl
  ELSE "undefined"

\* the body of the tabs.get(tabId).then(...) callback of updateSession, for a
\* snapshot that carries a state
updateSession(sessionData, tabId, frameId) ==
  LET sessionId == <<tabId, frameId>>
      hasPrev == Has(sessions, sessionId)
      prev == IF hasPrev THEN Get(sessions, sessionId) ELSE Null
      session == [id |-> sessionId, tabId |-> tabId, frameId |-> frameId,
                  title |-> titleOf(sessionData, tabId),
                  artworkUrl |-> artworkUrlOf(sessionData),
                  state |-> sessionData.state,
                  lastActiveAt |-> newLastActiveAt(hasPrev, prev, sessionData.state, now)]
      lastBroadcast == TimestampOf(lastBroadcastTimestamps, sessionId)
      isStateChange == ~hasPrev \/ prev.state.paused # session.state.paused
      send == shouldBroadcast(hasPrev, isStateChange, lastBroadcast, now)
  IN [sessions |-> MapSet(sessions, session),
      active |-> IF becomesActive(hasPrev, prev, sessionData.state)
                   THEN sessionId ELSE lastActiveSessionId,
      stamps |-> IF send THEN SetTimestamp(lastBroadcastTimestamps, sessionId, now)
                 ELSE lastBroadcastTimestamps,
      out |-> IF send
                THEN <<broadcastToPopups([type |-> "SESSION_UPDATED", session |-> session])>>
                ELSE <<>>,
      seen |-> [id |-> sessionId, at |-> now, sent |-> send,
                steady |-> hasPrev /\ ~isStateChange,
                entered |-> EntersPlaying(hasPrev, prev, sessionData.state)]]

\* (mutant) the broadcast timestamp is written before the state is read
updateSessionStampedFirst(tabId, frameId) ==
  [sessions |-> sessions, active |-> lastActiveSessionId,
   stamps |-> SetTimestamp(lastBroadcastTimestamps, <<tabId, frameId>>, now),
   out |-> <<>>, at |-> "stamped"]

\* the same callback for a snapshot without a state: the first expression that
\* reads sessionData.state.paused throws a TypeError, which the .catch of
\* updateSession logs.  The tests short-circuit, so which expression that is
\* depends on the previous record; the registry is as the statements before
\* it left it, and none of them writes.
updateSessionThrows(tabId, frameId) ==
  LET sessionId == <<tabId, frameId>>
      hasPrev == Has(sessions, sessionId)
      prev == IF hasPrev THEN Get(sessions, sessionId) ELSE Null
      \* prev && prev.state && prev.state.paused && !session.state.paused
      turnsPlaying == hasPrev /\ prev.state.paused
      \* else if (!prev && !session.state.paused)
      newAndPlaying == ~turnsPlaying /\ ~hasPrev
  IN [sessions |-> sessions, active |-> lastActiveSessionId,
      stamps |-> lastBroadcastTimestamps, out |-> <<>>,
      at |-> IF turnsPlaying THEN "turnsPlaying"
             ELSE IF newAndPlaying THEN "newAndPlaying"
             ELSE "isStateChange"]

\* ----------------------------------------------------------------- inputs
Snapshots == {[state |-> [paused |-> b]] : b \in BOOLEAN} \cup {[state |-> Undefined]}
NoParams == {}
PopupCommands ==
  {[cmd |-> "toggle", params |-> NoParams],
   [cmd |-> "seek", params |-> {<<"delta", SeekStep>>}]}
Shortcuts == {"toggle-play", "seek-forward", "seek-backward"}
RandomFrameIds == 0..MaxRandomFrameId

InFlight == Len(lookups) + Len(commands)
Without(q, i) == [j \in 1..(Len(q) - 1) |-> IF j < i THEN q[j] ELSE q[j + 1]]
\* the log of processed snapshots drops what is known of removed sessions
Forget(log, removed) == SelectSeq(log, LAMBDA e : e.id \notin removed)
\* Under "snapLog" the log is the trailing run of processed snapshots; under
\* "entries" it holds, for every registered session that has entered the
\* playing state, its latest entry, in the order the entries were processed.
Record(log, e) ==
  IF "entries" \in watch
    THEN IF e.entered
           THEN Append(Forget(log, {e.id}), [id |-> e.id, at |-> e.at])
           ELSE log
  ELSE IF "snapLog" \notin watch THEN log
  ELSE LET seen == [id |-> e.id, at |-> e.at, sent |-> e.sent,
                    steady |-> e.steady]
       IN IF Len(log) >= 2 THEN Append(Tail(log), seen) ELSE Append(log, seen)
NoAgentIds(tab) == [c \in Contexts |-> IF c[1] = tab THEN 0 ELSE agentFrameId[c]]

\* ------------------------------------------------------------------- Init
\* the state after `new MediaSessionManager()`, all tabs open, no agent yet
\* the agent after its constructor, in a document without media elements
NewAgent ==
  [mediaElement |-> "null", isVirtual |-> FALSE, retryCount |-> 0,
   seekInProgress |-> FALSE, updateThrottle |-> FALSE, throttleAt |-> 0,
   started |-> FALSE,
   timers |-> 0,
   listeners |-> [e \in {"cast", "small", "clip", "twin", "good"} |-> 0],
   monitors |-> 0, virtuals |-> 0,
   virtual |-> [paused |-> TRUE, currentTime |-> 0, duration |-> 0,
                volume |-> NoVolume, muted |-> FALSE],
   seekWaits |-> 0, rechecks |-> 0]
EmptyPage ==
  [spotify |-> FALSE, elements |-> <<>>, playing |-> FALSE,
   progressText |-> <<>>, durationText |-> <<>>,
   controls |-> TRUE, progressBar |-> "none", volumeBar |-> "none",
   volumeInput |-> NoVolume, muteButton |-> "none"]

StartAll(w, argument, document) ==
  /\ watch = w
  /\ input = argument
  /\ result = Null
  /\ agent = NewAgent
  /\ page = document
  /\ outbox = <<>>
  /\ now = StartTime
  /\ openTabs = Tabs
  /\ agentTabs = {}
  /\ agentFrameId = [c \in Contexts |-> 0]
  /\ sessions = <<>>
  /\ lastActiveSessionId = Null
  /\ lastBroadcastTimestamps = [k \in {} |-> 0]
  /\ ports = {}
  /\ lookups = <<>>
  /\ commands = <<>>
  /\ out = <<>>
  /\ ev = [op |-> "init"]
  /\ snapLog = <<>>
  /\ popupSessions = [k \in {} |-> Null]
  /\ optimisticStates = [k \in {} |-> Null]
  /\ cards = [k \in {} |-> Null]
  /\ listHidden = TRUE
  /\ toggled = [k \in {} |-> Null]
  /\ drags = <<>>

StartWith(w, argument) == StartAll(w, argument, EmptyPage)
Start(w) == StartWith(w, Null)

\* ------------------------------------------------------ the environment
\* time passes
Tick(d) ==
  /\ now + d <= StartTime + MaxTicks * d
  /\ now' = now + d
  /\ out' = Post(<<>>)
  /\ ev' = Observe([op |-> "tick"])
  /\ UNCHANGED <<restVars, coordVars, popupVars>>

\* MediaAgent.init in every frame of a tab (the script is injected with
\* allFrames): the top frame takes frameId 0, a sub-frame a random number
AgentInit(tab, r) ==
  /\ tab \in openTabs \ agentTabs
  /\ agentFrameId' = [c \in Contexts |->
         IF c[1] # tab THEN agentFrameId[c]
         ELSE IF c[2] = TopFrame THEN 0 ELSE r]
  /\ agentTabs' = agentTabs \cup {tab}
  /\ out' = Post(<<>>)
  /\ ev' = Observe([op |-> "agentInit", tab |-> tab])
  /\ UNCHANGED <<popupVars, restVars, now, openTabs, sessions, lastActiveSessionId,
                 lastBroadcastTimestamps, ports, lookups, commands, snapLog>>

\* the page of a tab is unloaded (reload, navigation): its agents are gone,
\* the tab stays
PageUnload(tab) ==
  /\ tab \in agentTabs
  /\ agentTabs' = agentTabs \ {tab}
  /\ agentFrameId' = NoAgentIds(tab)
  /\ out' = Post(<<>>)
  /\ ev' = Observe([op |-> "pageUnload", tab |-> tab])
  /\ UNCHANGED <<popupVars, restVars, now, openTabs, sessions, lastActiveSessionId,
                 lastBroadcastTimestamps, ports, lookups, commands, snapLog>>

\* ------------------------------------------------- coordinator handlers
\* tabs.onRemoved: the tab is closed and the listener removes its sessions
TabRemoved(tab) ==
  /\ tab \in openTabs
  /\ LET R == removeSessionsForTab(Registry, tab) IN
       /\ sessions' = R.sessions
       /\ lastActiveSessionId' = R.active
       /\ out' = Post(R.out)
       /\ snapLog' = Forget(snapLog, Ids(sessions) \ Ids(R.sessions))
       /\ ev' = Observe([op |-> "tabRemoved", tab |-> Detail(tab),
                 wasActive |-> lastActiveSessionId \in Ids(sessions) \ Ids(R.sessions)])
  /\ openTabs' = openTabs \ {tab}
  /\ agentTabs' = agentTabs \ {tab}
  /\ agentFrameId' = NoAgentIds(tab)
  /\ UNCHANGED <<popupVars, restVars, now, lastBroadcastTimestamps, ports, lookups, commands>>

\* tabs.onUpdated with changeInfo.audible, and scanAudibleTabs:
\* handleTabAudibleChange(tab)
TabAudibleChange(tab, audible, isMusicSite) ==
  /\ tab \in openTabs
  /\ LET R == IF ~audible /\ ~isMusicSite
                THEN removeSessionsForTab(Registry, tab)
                ELSE Registry
     IN
       /\ sessions' = R.sessions
       /\ lastActiveSessionId' = R.active
       /\ out' = Post(R.out)
       /\ snapLog' = Forget(snapLog, Ids(sessions) \ Ids(R.sessions))
       /\ ev' = Observe([op |-> "audibleChange", tab |-> Detail(tab),
                 audible |-> Detail(audible),
                 isMusicSite |-> Detail(isMusicSite),
                 wasActive |-> lastActiveSessionId \in Ids(sessions) \ Ids(R.sessions)])
  /\ UNCHANGED <<popupVars, restVars, now, openTabs, agentTabs, agentFrameId,
                 lastBroadcastTimestamps, ports, lookups, commands>>

\* handleMessage, case SESSION_UPDATE: updateSession starts tabs.get(tabId),
\* at most limit asynchronous operations being outstanding
StartLookup(c, data, limit) ==
  /\ c[1] \in agentTabs
  /\ InFlight < limit
  /\ lookups' = Append(lookups, [data |-> data, tabId |-> c[1], frameId |-> c[2]])
  /\ out' = Post(<<>>)
  /\ ev' = Observe([op |-> "SESSION_UPDATE", id |-> c])
  /\ UNCHANGED <<popupVars, restVars, now, openTabs, agentTabs, agentFrameId, sessions,
                 lastActiveSessionId, lastBroadcastTimestamps, ports, commands,
                 snapLog>>

ReceiveSessionUpdate(c, data) == StartLookup(c, data, MaxInFlight)

\* the .then callback of updateSession for the lookup l.  A snapshot without a
\* state makes the callback throw before it stores anything (.catch logs).
Callback(l) ==
     LET id == <<l.tabId, l.frameId>>
     IN IF l.data.state = Undefined
          THEN LET U == updateSessionThrows(l.tabId, l.frameId) IN
               /\ sessions' = U.sessions
               /\ lastActiveSessionId' = U.active
               /\ lastBroadcastTimestamps' = U.stamps
               /\ out' = Post(U.out)
               /\ ev' = Observe([op |-> "updateSessionThrew", id |-> id,
                                 at |-> U.at])
               /\ UNCHANGED snapLog
          ELSE LET U == updateSession(l.data, l.tabId, l.frameId) IN
               /\ sessions' = U.sessions
               /\ lastActiveSessionId' = U.active
               /\ lastBroadcastTimestamps' = U.stamps
               /\ out' = Post(U.out)
               /\ snapLog' = Record(snapLog, U.seen)
               /\ ev' = Observe([op |-> "updateSession", id |-> id,
                         data |-> Detail(l.data),
                         isNew |-> ~Has(sessions, id),
                         steady |-> U.seen.steady,
                         recent |-> now - TimestampOf(lastBroadcastTimestamps, id)
                                      < throttleMs,
                         raised |-> /\ Has(sessions, id)
                                    /\ Get(U.sessions, id).lastActiveAt
                                         > Get(sessions, id).lastActiveAt])

\* tabs.get resolved.  The API promises no order among pending lookups: any of
\* them may resolve.
TabLookupResolved(i) ==
  /\ i \in 1..Len(lookups)
  /\ lookups[i].tabId \in openTabs
  /\ lookups' = Without(lookups, i)
  /\ Callback(lookups[i])
  /\ UNCHANGED <<popupVars, restVars, now, openTabs, agentTabs, agentFrameId, ports, commands>>

\* SESSION_UPDATE handled to the end: handleMessage starts tabs.get and, the tab
\* being open, the callback runs before the coordinator handles anything else.
\* The callback reads the registry only when it runs, so for the registry this
\* is every behaviour of ReceiveSessionUpdate followed later by
\* TabLookupResolved.  Whether the sending agent still runs by then is the
\* page's affair (AgentInit, PageUnload), which no registry field depends on.
SessionUpdate(c, data) ==
  /\ c[1] \in openTabs
  /\ lookups = <<>>
  /\ Callback([data |-> data, tabId |-> c[1], frameId |-> c[2]])
  /\ UNCHANGED <<popupVars, restVars, now, openTabs, agentTabs, agentFrameId, ports, lookups, commands>>

\* tabs.get rejected (the tab no longer exists): .catch logs, nothing changes
TabLookupRejected(i) ==
  /\ i \in 1..Len(lookups)
  /\ lookups[i].tabId \notin openTabs
  /\ lookups' = Without(lookups, i)
  /\ out' = Post(<<>>)
  /\ ev' = Observe([op |-> "lookupRejected", id |-> <<lookups[i].tabId, lookups[i].frameId>>])
  /\ UNCHANGED <<popupVars, restVars, now, openTabs, agentTabs, agentFrameId, sessions,
                 lastActiveSessionId, lastBroadcastTimestamps, ports, commands,
                 snapLog>>

\* handleMessage, case SESSION_REMOVE
ReceiveSessionRemove(id) ==
  /\ LET R == removeSession(Registry, id) IN
       /\ sessions' = R.sessions
       /\ lastActiveSessionId' = R.active
       /\ out' = Post(R.out)
       /\ snapLog' = Forget(snapLog, Ids(sessions) \ Ids(R.sessions))
       /\ ev' = Observe([op |-> "SESSION_REMOVE", id |-> Detail(id),
                 wasActive |-> lastActiveSessionId \in Ids(sessions) \ Ids(R.sessions)])
  /\ UNCHANGED <<popupVars, restVars, now, openTabs, agentTabs, agentFrameId,
                 lastBroadcastTimestamps, ports, lookups, commands>>

\* forwardControlCommand(command) up to its await: the MEDIA_CONTROL message
\* tabs.sendMessage is given, or Null when the session is not found
forwardControlCommand(command) ==
  IF Has(sessions, command.sessionId)
    THEN LET session == Get(sessions, command.sessionId) IN
         [sessionId |-> command.sessionId, tabId |-> session.tabId,
          type |-> "MEDIA_CONTROL", frameId |-> session.frameId,
          cmd |-> command.cmd, params |-> command.params]
    ELSE Null

\* (mutant) seek-backward sends the delta of seek-forward
handleCommandSameDelta(command) ==
  IF lastActiveSessionId = Null \/ ~Has(sessions, lastActiveSessionId) THEN Null
  ELSE IF command = "toggle-play"
    THEN [sessionId |-> lastActiveSessionId, cmd |-> "toggle", params |-> NoParams]
  ELSE [sessionId |-> lastActiveSessionId, cmd |-> "seek",
        params |-> {<<"delta", SeekStep>>}]

\* the command handleCommand(command) forwards for a shortcut: Null when there
\* is no active session
handleCommand(command) ==
  LET session == IF lastActiveSessionId # Null /\ Has(sessions, lastActiveSessionId)
                   THEN Get(sessions, lastActiveSessionId) ELSE Null
  IN IF session = Null THEN Null
     ELSE IF command = "toggle-play"
       THEN [sessionId |-> lastActiveSessionId, cmd |-> "toggle", params |-> NoParams]
     ELSE IF command = "seek-forward"
       THEN [sessionId |-> lastActiveSessionId, cmd |-> "seek",
             params |-> {<<"delta", SeekStep>>}]
     ELSE IF command = "seek-backward"
       THEN [sessionId |-> lastActiveSessionId, cmd |-> "seek",
             params |-> {<<"delta", 0 - SeekStep>>}]
     ELSE Null

\* the agents of a tab whose onMessage listener accepts the message:
\* message.frameId === this.frameId (message.frameId is never undefined here)
Handlers(message) ==
  {c \in FramesOf(message.tabId) : message.frameId = agentFrameId[c]}

Send(message) ==
  IF message = Null THEN commands' = commands
  ELSE /\ InFlight < MaxInFlight
       /\ commands' = Append(commands, message)

\* port.onMessage, CONTROL_COMMAND from a connected popup (and handleMessage,
\* case CONTROL_COMMAND): forwardControlCommand(message.data)
ControlCommand(id, c) ==
  /\ ports # {}
  /\ LET command == [sessionId |-> id, cmd |-> c.cmd, params |-> c.params]
         message == forwardControlCommand(command)
     IN /\ Send(message)
        /\ ev' = Observe([op |-> "CONTROL_COMMAND", command |-> command, message |-> message])
  /\ out' = Post(<<>>)
  /\ UNCHANGED <<popupVars, restVars, now, openTabs, agentTabs, agentFrameId, sessions,
                 lastActiveSessionId, lastBroadcastTimestamps, ports, lookups,
                 snapLog>>

\* commands.onCommand: handleCommand(command)
Shortcut(command) ==
  /\ LET c == handleCommand(command)
         message == IF c = Null THEN Null ELSE forwardControlCommand(c)
     IN /\ Send(message)
        /\ ev' = Observe([op |-> "shortcut", command |-> command, message |-> message])
  /\ out' = Post(<<>>)
  /\ UNCHANGED <<popupVars, restVars, now, openTabs, agentTabs, agentFrameId, sessions,
                 lastActiveSessionId, lastBroadcastTimestamps, ports, lookups,
                 snapLog>>

\* tabs.sendMessage resolved: the tab has listening agents, each agent whose
\* frameId matches ran handleControlCommand and answered; when none matches the
\* promise is fulfilled without a response.  forwardControlCommand returns.
CommandDelivered(i) ==
  /\ i \in 1..Len(commands)
  /\ commands[i].tabId \in agentTabs
  /\ commands' = Without(commands, i)
  /\ out' = Post(<<>>)
  /\ ev' = Observe([op |-> "delivered", message |-> commands[i],
            handledBy |-> Handlers(commands[i])])
  /\ UNCHANGED <<popupVars, restVars, now, openTabs, agentTabs, agentFrameId, sessions,
                 lastActiveSessionId, lastBroadcastTimestamps, ports, lookups,
                 snapLog>>

\* tabs.sendMessage rejected (no tab, or no receiving end in it): the catch
\* block of forwardControlCommand removes the session
Catch(message) ==
  LET R == removeSession(Registry, message.sessionId) IN
       /\ sessions' = R.sessions
       /\ lastActiveSessionId' = R.active
       /\ out' = Post(R.out)
       /\ snapLog' = Forget(snapLog, Ids(sessions) \ Ids(R.sessions))
       /\ ev' = Observe([op |-> "commandFailed", message |-> message,
                 wasActive |-> lastActiveSessionId \in Ids(sessions) \ Ids(R.sessions)])

CommandFailed(i) ==
  /\ i \in 1..Len(commands)
  /\ commands[i].tabId \notin agentTabs
  /\ commands' = Without(commands, i)
  /\ Catch(commands[i])
  /\ UNCHANGED <<popupVars, restVars, now, openTabs, agentTabs, agentFrameId,
                 lastBroadcastTimestamps, ports, lookups>>

\* forwardControlCommand run to the end for a command whose delivery fails: the
\* session is found, tabs.sendMessage rejects (the page of the tab has been
\* unloaded, PageUnload) and the catch block runs before the coordinator
\* handles anything else
CommandRejected(id, c) ==
  /\ commands = <<>>
  /\ LET message == forwardControlCommand(
                      [sessionId |-> id, cmd |-> c.cmd, params |-> c.params])
     IN /\ message # Null
        /\ Catch(message)
  /\ UNCHANGED <<popupVars, restVars, now, openTabs, agentTabs, agentFrameId,
                 lastBroadcastTimestamps, ports, lookups, commands>>

\* runtime.onConnect: handlePopupConnection(port)
PopupConnect(port) ==
  /\ port \notin ports
  /\ ports' = ports \cup {port}
  /\ out' = Post(<<[msg |-> [type |-> "SESSIONS_INIT", sessions |-> sessions],
                     to |-> {port}]>>)
  /\ ev' = Observe([op |-> "connect", port |-> port])
  /\ UNCHANGED <<popupVars, restVars, now, openTabs, agentTabs, agentFrameId, sessions,
                 lastActiveSessionId, lastBroadcastTimestamps, lookups,
                 commands, snapLog>>

\* port.onDisconnect
PopupDisconnect(port) ==
  /\ port \in ports
  /\ ports' = ports \ {port}
  /\ out' = Post(<<>>)
  /\ ev' = Observe([op |-> "disconnect", port |-> port])
  /\ UNCHANGED <<popupVars, restVars, now, openTabs, agentTabs, agentFrameId, sessions,
                 lastActiveSessionId, lastBroadcastTimestamps, lookups,
                 commands, snapLog>>

\* ---------------------------------------------------------- the registry
\* Spec: every handler that changes the registry, each run to its end, for
\* all three contexts on a coarse clock.
Toggle == [cmd |-> "toggle", params |-> NoParams]

Init == Start({"SESSION_REMOVE", "commandFailed"})

Next ==
  \/ Tick(TickMs)
  \/ \E tab \in Tabs : TabRemoved(tab)
  \/ \E tab \in Tabs, audible \in BOOLEAN, isMusicSite \in BOOLEAN :
       TabAudibleChange(tab, audible, isMusicSite)
  \/ \E c \in Contexts, data \in Snapshots : SessionUpdate(c, data)
  \/ \E id \in Contexts : ReceiveSessionRemove(id)
  \/ \E id \in Contexts : CommandRejected(id, Toggle)

Spec == Init /\ [][Next]_vars

\* SpecLifecycle: the same handlers at one clock value, every event that can remove a session recorded
\* with the tab or session it was about
InitLifecycle == Start({"tabRemoved", "audibleChange", "SESSION_REMOVE",
                        "commandFailed", "detail"})
NextLifecycle ==
  \/ \E tab \in Tabs : TabRemoved(tab)
  \/ \E tab \in Tabs, audible \in BOOLEAN, isMusicSite \in BOOLEAN :
       TabAudibleChange(tab, audible, isMusicSite)
  \/ \E c \in Contexts, data \in Snapshots : SessionUpdate(c, data)
  \/ \E id \in Contexts : ReceiveSessionRemove(id)
  \/ \E id \in Contexts : CommandRejected(id, Toggle)
SpecLifecycle == InitLifecycle /\ [][NextLifecycle]_vars

\* ------------------------------------------------------------ throttling
\* SpecThrottle: the snapshots of the two frames of tab 1, observed one by one
ThrottleContexts == FramesOf(1)
WellFormed == {d \in Snapshots : d.state # Undefined}

InitThrottle == Start({"updateSession", "out", "snapLog"})

NextThrottle ==
  \/ Tick(TickMs)
  \/ \E c \in ThrottleContexts, data \in WellFormed : SessionUpdate(c, data)
  \/ \E id \in ThrottleContexts : ReceiveSessionRemove(id)
  \/ \E port \in Ports : PopupConnect(port)
  \/ \E port \in Ports : PopupDisconnect(port)

SpecThrottle == InitThrottle /\ [][NextThrottle]_vars

\* SpecRemoval: sessions of all tabs come and go by tab removal and command
\* failure while a popup may be connected; the broadcasts are observed
InitRemoval == Start({"tabRemoved", "commandFailed", "detail", "out"})
NextRemoval ==
  \/ \E tab \in Tabs : TabRemoved(tab)
  \/ \E c \in Contexts, data \in WellFormed : SessionUpdate(c, data)
  \/ \E id \in Contexts : CommandRejected(id, Toggle)
  \/ \E port \in Ports : PopupConnect(port)
SpecRemoval == InitRemoval /\ [][NextRemoval]_vars

\* --------------------------------------------------------------- routing
\* SpecRoute: commands on their way to the agents of tab 1, every asynchronous
\* step on its own; the clock stands still
RouteTab == CHOOSE tab \in Tabs : <<tab, SubFrame>> \in Contexts

InitRoute ==
  Start({"CONTROL_COMMAND", "shortcut", "delivered", "commandFailed", "out"})

NextRoute ==
  \/ \E r \in RandomFrameIds : AgentInit(RouteTab, r)
  \/ PageUnload(RouteTab)
  \/ TabRemoved(RouteTab)
  \/ \E c \in FramesOf(RouteTab), data \in WellFormed : ReceiveSessionUpdate(c, data)
  \/ \E i \in 1..MaxInFlight : TabLookupResolved(i)
  \/ \E i \in 1..MaxInFlight : TabLookupRejected(i)
  \/ \E id \in FramesOf(RouteTab), c \in PopupCommands : ControlCommand(id, c)
  \/ \E command \in Shortcuts : Shortcut(command)
  \/ \E i \in 1..MaxInFlight : CommandDelivered(i)
  \/ \E i \in 1..MaxInFlight : CommandFailed(i)
  \/ \E port \in Ports : PopupConnect(port)
  \/ \E port \in Ports : PopupDisconnect(port)

SpecRoute == InitRoute /\ [][NextRoute]_vars

\* -------------------------------------------------------------- ordering
\* SpecOrder: the snapshots of the frames of one tab, several tabs.get lookups
\* pending at a time; the clock stands still
InitOrder == Start({"updateSession", "out"})

NextOrder ==
  \/ \E r \in RandomFrameIds : AgentInit(RouteTab, r)
  \/ \E c \in FramesOf(RouteTab), data \in WellFormed :
       StartLookup(c, data, MaxPending)
  \/ \E i \in 1..MaxPending : TabLookupResolved(i)
  \/ \E port \in Ports : PopupConnect(port)

SpecOrder == InitOrder /\ [][NextOrder]_vars

\* ------------------------------------------------------ the active session
\* SpecActive: snapshots and removals of all sessions on a coarse clock, the
\* entries into the playing state logged
InitActive == Start({"entries", "SESSION_REMOVE"})

NextActive ==
  \/ Tick(TickMs)
  \/ \E c \in Contexts, data \in WellFormed : SessionUpdate(c, data)
  \/ \E id \in Contexts : ReceiveSessionRemove(id)

SpecActive == InitActive /\ [][NextActive]_vars

\* --------------------------------------------------- malformed snapshots
\* SpecMalformed: snapshots with and without a state from the frames of one
\* tab, each handled to the end, on a coarse clock
InitMalformed == Start({"updateSession", "updateSessionThrew", "out"})

NextMalformed ==
  \/ Tick(TickMs)
  \/ \E c \in ThrottleContexts, data \in Snapshots : SessionUpdate(c, data)
  \/ \E id \in ThrottleContexts : ReceiveSessionRemove(id)
  \/ \E port \in Ports : PopupConnect(port)

SpecMalformed == InitMalformed /\ [][NextMalformed]_vars

\* ------------------------------------------------------ described snapshots
\* SpecRecord: snapshots that carry a title and an artwork, from the frames of
\* one tab, each handled to the end, on a coarse clock.  document.title is the
\* empty string in a document without a title; artworkUrl is null without
\* media-session artwork.
Titles == {"", "song"}
Artworks == {"null", "cover.png"}
Described ==
  {[title |-> t, artworkUrl |-> a, state |-> [paused |-> b]] :
     t \in Titles, a \in Artworks, b \in BOOLEAN}

InitRecord == Start({"updateSession", "out", "detail"})

NextRecord ==
  \/ Tick(TickMs)
  \/ \E c \in ThrottleContexts, data \in Described : SessionUpdate(c, data)

SpecRecord == InitRecord /\ [][NextRecord]_vars

\* ---------------------------------------------------------------- popup
\* the sessions the popup is told about
PopupIds == FramesOf(RouteTab)
Put(m, k, v) == [x \in DOMAIN m \cup {k} |-> IF x = k THEN v ELSE m[x]]
Drop(m, k) == [x \in DOMAIN m \ {k} |-> m[x]]
\* a session as the popup receives it; times in seconds, volume 0 or 1
PopupSession(title, paused, muted, volume, currentTime, duration) ==
  [title |-> title,
   state |-> [paused |-> paused, muted |-> muted, volume |-> volume,
              currentTime |-> currentTime, duration |-> duration]]
\* a session of which only the paused flag is of interest
SessionOf(paused) == PopupSession("a", paused, FALSE, 1, 0, 0)
\* the lists of sessions SESSIONS_INIT and the GET_SESSIONS response carry
SessionLists ==
  UNION {[S -> {SessionOf(b) : b \in BOOLEAN}] : S \in SUBSET PopupIds}

\* A card is [session, live, title, isPaused, volume, muted, progress,
\* dragging, sliderFocused]: session is the object the card's listeners closed
\* over when the card was created, live tells whether that object is still
\* the one stored in popupSessions; title, isPaused (play/pause button),
\* volume (slider value), muted (icon) and progress (fill in percent, the two
\* times shown, in seconds) are what the card shows; dragging is the class of
\* its progress bar, sliderFocused tells whether its volume slider is
\* document.activeElement.
\* currentTime / duration * 100, for times whose quotient is a whole percent
Percent(currentTime, duration) == (currentTime * 100) \div duration

\* updateProgressBarVisuals(card, state)
updateProgressBarVisuals(progress, state) ==
  IF state.duration = 0
    THEN [progress EXCEPT !.fill = 0]
    ELSE [fill |-> Percent(state.currentTime, state.duration),
          current |-> state.currentTime, duration |-> state.duration]

\* (mutant) the progress bar is refreshed while it is dragged, too
updateSessionCardDOMAlways(card, session) ==
  [card EXCEPT
     !.title = session.title,
     !.isPaused = session.state.paused,
     !.volume = IF card.sliderFocused THEN @ ELSE session.state.volume,
     !.muted = session.state.muted,
     !.progress = updateProgressBarVisuals(@, session.state)]

\* updateSessionCardDOM(card, session): title, play/pause button and mute icon
\* always; the volume slider unless it has the focus; the progress bar unless
\* it is being dragged
updateSessionCardDOM(card, session) ==
  [card EXCEPT
     !.title = session.title,
     !.isPaused = session.state.paused,
     !.volume = IF card.sliderFocused THEN @ ELSE session.state.volume,
     !.muted = session.state.muted,
     !.progress = IF card.dragging THEN @
                  ELSE updateProgressBarVisuals(@, session.state)]

\* the card's HTML before it is filled in: both times read 0:00
BlankCard(session) ==
  [session |-> session, live |-> TRUE, title |-> "", isPaused |-> TRUE,
   volume |-> 0, muted |-> FALSE,
   progress |-> [fill |-> 0, current |-> 0, duration |-> 0],
   dragging |-> FALSE, sliderFocused |-> FALSE]

\* createSessionCard(session): the listeners close over session
createSessionCard(session) == updateSessionCardDOM(BlankCard(session), session)

\* renderSessions(sessions): cards of other ids are removed, missing cards are
\* created, the cards that exist are refreshed and keep their listeners
renderSessions(cs, mirror) ==
  [id \in DOMAIN mirror |->
     IF id \in DOMAIN cs THEN updateSessionCardDOM(cs[id], mirror[id])
     ELSE createSessionCard(mirror[id])]

\* updateDisplay(): an empty mirror hides the list and leaves its cards alone
updateDisplay(cs, mirror) ==
  IF DOMAIN mirror = {}
    THEN [cards |-> cs, hidden |-> TRUE]
    ELSE [cards |-> renderSessions(cs, mirror), hidden |-> FALSE]

\* the objects of ids were replaced in, or deleted from, the mirror: the
\* cards' listeners keep the old objects
Detach(cs, ids) ==
  [id \in DOMAIN cs |->
     IF id \in ids THEN [cs[id] EXCEPT !.live = FALSE] ELSE cs[id]]

\* (mutant) the optimistic value lives one millisecond longer
withinOptimisticWindowInclusive(optState, t) ==
  t - optState.timestamp <= OptimisticWindowMs

\* handleBackgroundMessage, SESSION_UPDATED: the optimistic value is recent
withinOptimisticWindow(optState, t) ==
  t - optState.timestamp < OptimisticWindowMs

\* SESSIONS_INIT and the GET_SESSIONS response: the mirror is cleared and
\* filled with the listed sessions, then updateDisplay()
ReplaceSessions(list) ==
  LET displayed == updateDisplay(Detach(cards, DOMAIN cards), list) IN
  /\ popupSessions' = list
  /\ cards' = displayed.cards
  /\ listHidden' = displayed.hidden
  /\ out' = Received
  /\ UNCHANGED <<optimisticStates, toggled, drags, restVars, now, coordVars>>

\* handleBackgroundMessage, case SESSIONS_INIT
SessionsInit(list) ==
  /\ ReplaceSessions(list)
  /\ ev' = Observe([op |-> "SESSIONS_INIT"])

\* loadSessions(), once the GET_SESSIONS response is there
LoadSessions(list) ==
  /\ ReplaceSessions(list)
  /\ ev' = Observe([op |-> "GET_SESSIONS"])

\* handleBackgroundMessage, case SESSION_UPDATED, for the session incoming
\* broadcast under id
SessionUpdatedWith(id, incoming) ==
  LET override == /\ id \in DOMAIN optimisticStates
                  /\ withinOptimisticWindow(optimisticStates[id], now)
      session == IF override
                   THEN [incoming EXCEPT
                           !.state.paused = optimisticStates[id].paused]
                   ELSE incoming
      mirror == Put(popupSessions, id, session)
      stale == Detach(cards, {id})
      \* updateSessionCard(message.session)
      updated == IF id \in DOMAIN stale
                   THEN Put(stale, id, updateSessionCardDOM(stale[id], session))
                   ELSE stale
      displayed == updateDisplay(updated, mirror)
  IN
  /\ optimisticStates' = IF override THEN optimisticStates
                         ELSE Drop(optimisticStates, id)
  /\ popupSessions' = mirror
  /\ cards' = displayed.cards
  /\ listHidden' = displayed.hidden
  /\ out' = Received
  /\ ev' = Observe([op |-> "SESSION_UPDATED", id |-> id,
                    paused |-> incoming.state.paused])
  /\ UNCHANGED <<toggled, drags, restVars, now, coordVars>>

\* SESSION_UPDATED for a session id whose authoritative paused flag is paused
SessionUpdated(id, paused) == SessionUpdatedWith(id, SessionOf(paused))

\* handleBackgroundMessage, case SESSION_REMOVED: the two Map entries are
\* deleted; this.removeSessionCard is not a method of the class, so the call
\* throws and neither the card nor the display is touched
SessionRemoved(id) ==
  /\ popupSessions' = Drop(popupSessions, id)
  /\ optimisticStates' = Drop(optimisticStates, id)
  /\ cards' = Detach(cards, {id})
  /\ toggled' = IF id \in DOMAIN toggled
                  THEN Put(toggled, id, [toggled[id] EXCEPT !.removed = TRUE])
                  ELSE toggled
  /\ out' = Received
  /\ ev' = Observe([op |-> "SESSION_REMOVED", id |-> id])
  /\ UNCHANGED <<listHidden, drags, restVars, now, coordVars>>

\* handleToggle(session, btn), called by the click listener of a visible
\* card with the session object the listener closed over
handleToggle(id) ==
  LET session == cards[id].session
      newPausedState == ~session.state.paused
      flipped == [session EXCEPT !.state.paused = newPausedState]
  IN
  /\ id \in DOMAIN cards
  /\ ~listHidden
  /\ cards' = Put(cards, id, updateSessionCardDOM(
                   [cards[id] EXCEPT !.session = flipped], flipped))
  /\ popupSessions' = IF cards[id].live THEN Put(popupSessions, id, flipped)
                      ELSE popupSessions
  /\ optimisticStates' = Put(optimisticStates, id,
                             [paused |-> newPausedState, timestamp |-> now])
  /\ toggled' = Put(toggled, id, [paused |-> newPausedState,
                                   timestamp |-> now, removed |-> FALSE])
  /\ out' = Post(<<>>)
  /\ ev' = Observe([op |-> "toggle", id |-> id,
                    posted |-> [type |-> "CONTROL_COMMAND",
                                data |-> [sessionId |-> id, cmd |-> "toggle"]]])
  /\ UNCHANGED <<listHidden, drags, restVars, now, coordVars>>

\* sendControlCommand(sessionId, cmd, params): the message posted on the port
ControlMessage(sessionId, cmd, params) ==
  [type |-> "CONTROL_COMMAND",
   data |-> [sessionId |-> sessionId, cmd |-> cmd, params |-> params]]

\* the volume slider of a visible card takes the focus (a click on it, or the
\* Tab key), or loses it
FocusSlider(id, focused) ==
  /\ id \in DOMAIN cards
  /\ ~listHidden
  /\ cards' = [k \in DOMAIN cards |->
                 [cards[k] EXCEPT !.sliderFocused = focused /\ k = id]]
  /\ out' = Post(<<>>)
  /\ ev' = Observe([op |-> "focus", id |-> id])
  /\ UNCHANGED <<popupSessions, optimisticStates, listHidden, toggled, drags,
                 restVars, now, coordVars>>

\* onMove of one startDrag closure, the pointer at pct percent of the bar:
\* the fill and the current time of the closure's card
onMove(cs, drag, pct) ==
  IF drag.id \in DOMAIN cs
    THEN Put(cs, drag.id,
             [cs[drag.id] EXCEPT
                !.progress.fill = pct,
                !.progress.current = (pct * drag.duration) \div 100])
    ELSE cs

\* every onMove registered on the document, in the order of registration
RECURSIVE MoveAll(_, _, _)
MoveAll(cs, ds, pct) ==
  IF ds = <<>> THEN cs
  ELSE MoveAll(onMove(cs, Head(ds), pct), Tail(ds), pct)

\* startDrag(e), the mousedown and touchstart listener of the progress bar of
\* a visible card, with the session object the listener closed over; a
\* closure without duration returns at once
startDrag(id, pct) ==
  LET session == cards[id].session
      drag == [id |-> id, duration |-> session.state.duration]
      flagged == Put(cards, id, [cards[id] EXCEPT !.dragging = TRUE])
  IN
  /\ id \in DOMAIN cards
  /\ ~listHidden
  /\ Len(drags) < MaxDrags
  /\ IF session.state.duration = 0
       THEN /\ ev' = Observe([op |-> "dragStart", id |-> id,
                              posted |-> <<>>])
            /\ out' = Post(<<>>)
            /\ UNCHANGED <<cards, drags>>
       ELSE /\ cards' = onMove(flagged, drag, pct)
            /\ drags' = Append(drags, drag)
            /\ ev' = Observe([op |-> "dragStart", id |-> id,
                              posted |-> <<ControlMessage(id, "beginSeek",
                                                          Null)>>])
            /\ out' = Wired(<<ControlMessage(id, "beginSeek", Null)>>)
  /\ UNCHANGED <<popupSessions, optimisticStates, listHidden, toggled, restVars,
                 now, coordVars>>

\* a mousemove or touchmove on the document while listeners are registered
DragMove(pct) ==
  /\ drags # <<>>
  /\ cards' = MoveAll(cards, drags, pct)
  /\ out' = Post(<<>>)
  /\ ev' = Observe([op |-> "dragMove", posted |-> <<>>])
  /\ UNCHANGED <<popupSessions, optimisticStates, listHidden, toggled, drags,
                 restVars, now, coordVars>>

\* onEnd of one startDrag closure: the class is removed, the final time is
\* the shown fill times the closure's duration; setTime, then endSeek
onEnd(cs, drag) ==
  LET fill == IF drag.id \in DOMAIN cs THEN cs[drag.id].progress.fill ELSE 0
      finalTime == (fill * drag.duration) \div 100
  IN
  [cards |-> IF drag.id \in DOMAIN cs
               THEN Put(cs, drag.id, [cs[drag.id] EXCEPT !.dragging = FALSE])
               ELSE cs,
   posted |-> <<ControlMessage(drag.id, "setTime", [time |-> finalTime]),
                ControlMessage(drag.id, "endSeek", Null)>>]

\* every onEnd registered on the document, in the order of registration
RECURSIVE EndAll(_, _)
EndAll(cs, ds) ==
  IF ds = <<>> THEN [cards |-> cs, posted |-> <<>>]
  ELSE LET first == onEnd(cs, Head(ds))
           rest == EndAll(first.cards, Tail(ds))
       IN [cards |-> rest.cards, posted |-> first.posted \o rest.posted]

\* a mouseup or touchend on the document while listeners are registered:
\* every closure's onEnd runs and removes its listeners
DragEnd ==
  /\ drags # <<>>
  /\ cards' = EndAll(cards, drags).cards
  /\ drags' = <<>>
  /\ out' = Wired(EndAll(cards, drags).posted)
  /\ ev' = Observe([op |-> "dragEnd",
                    posted |-> EndAll(cards, drags).posted])
  /\ UNCHANGED <<popupSessions, optimisticStates, listHidden, toggled, restVars,
                 now, coordVars>>

InitPopup == Start({"SESSION_UPDATED", "SESSION_REMOVED", "toggle"})
NextPopup ==
  \/ Tick(PopupTickMs)
  \/ \E list \in SessionLists : SessionsInit(list)
  \/ \E list \in SessionLists : LoadSessions(list)
  \/ \E id \in PopupIds, paused \in BOOLEAN : SessionUpdated(id, paused)
  \/ \E id \in PopupIds : SessionRemoved(id)
  \/ \E id \in PopupIds : handleToggle(id)
SpecPopup == InitPopup /\ [][NextPopup]_vars

\* --------------------------------------------- the popup, one card dragged
DragId == <<RouteTab, TopFrame>>
DragPercents == {0, 50, 100}
\* sessions that differ in everything a card shows; the times are chosen so
\* that every percentage is a whole number
DragSessions ==
  {PopupSession("a", TRUE, FALSE, 1, 0, 0),
   PopupSession("b", FALSE, TRUE, 0, 50, 100),
   PopupSession("a", FALSE, FALSE, 0, 50, 200),
   PopupSession("b", TRUE, TRUE, 1, 0, 0)}
DragLists == {[k \in {} |-> Null]} \cup {Put([k \in {} |-> Null], DragId, s) :
                                          s \in DragSessions}

InitDrag == Start({"SESSION_UPDATED", "SESSIONS_INIT", "GET_SESSIONS",
                   "dragStart", "dragMove", "dragEnd"})
NextDrag ==
  \/ \E list \in DragLists : SessionsInit(list)
  \/ \E session \in DragSessions : SessionUpdatedWith(DragId, session)
  \/ \E focused \in BOOLEAN : FocusSlider(DragId, focused)
  \/ \E pct \in DragPercents : startDrag(DragId, pct)
  \/ \E pct \in DragPercents : DragMove(pct)
  \/ DragEnd
SpecDrag == InitDrag /\ [][NextDrag]_vars

\* ===================================================== the media agent
\* ------------------------------------------------------- parseTimeString
\* A text is a sequence of characters.
DigitValue == [c \in {"0", "1", "2", "3", "4", "5", "6", "7", "8", "9"} |->
                 CASE c = "0" -> 0 [] c = "1" -> 1 [] c = "2" -> 2
                   [] c = "3" -> 3 [] c = "4" -> 4 [] c = "5" -> 5
                   [] c = "6" -> 6 [] c = "7" -> 7 [] c = "8" -> 8
                   [] c = "9" -> 9]
IsDigit(c) == c \in DOMAIN DigitValue
IsSpace(c) == c = " "

\* String.prototype.trim
RECURSIVE trim(_)
trim(text) ==
  IF text = <<>> THEN text
  ELSE IF IsSpace(Head(text)) THEN trim(Tail(text))
  ELSE IF IsSpace(text[Len(text)]) THEN trim(SubSeq(text, 1, Len(text) - 1))
  ELSE text

\* replace(/[^\d:]/g, '')
clean(text) == SelectSeq(text, LAMBDA c : IsDigit(c) \/ c = ":")

\* split(':'): the pieces between the colons; the empty text has one piece
RECURSIVE split(_)
split(text) ==
  IF \A k \in DOMAIN text : text[k] # ":" THEN <<text>>
  ELSE LET colon == CHOOSE k \in DOMAIN text :
                      text[k] = ":" /\ \A j \in 1..(k - 1) : text[j] # ":"
       IN <<SubSeq(text, 1, colon - 1)>>
            \o split(SubSeq(text, colon + 1, Len(text)))

\* parseInt(text, 10): the number the leading digits denote, NaN without one
RECURSIVE LeadingDigits(_, _)
LeadingDigits(text, value) ==
  IF text = <<>> \/ ~IsDigit(Head(text)) THEN value
  ELSE LeadingDigits(Tail(text), 10 * value + DigitValue[Head(text)])
parseInt(text) ==
  IF text = <<>> \/ ~IsDigit(Head(text))
    THEN [nan |-> TRUE, value |-> 0]
    ELSE [nan |-> FALSE, value |-> LeadingDigits(text, 0)]

\* number || 0
OrZero(number) == IF number.nan THEN 0 ELSE number.value

\* (mutant) minutes and seconds change places
parseTimeStringSwapped(timeStr) ==
  IF timeStr = <<>> THEN 0
  ELSE LET parts == split(clean(trim(timeStr))) IN
       IF Len(parts) = 2
         THEN OrZero(parseInt(parts[2])) * 60 + OrZero(parseInt(parts[1]))
       ELSE IF Len(parts) = 3
         THEN OrZero(parseInt(parts[1])) * 3600
              + OrZero(parseInt(parts[3])) * 60 + OrZero(parseInt(parts[2]))
       ELSE 0

\* parseTimeString(timeStr)
parseTimeString(timeStr) ==
  IF timeStr = <<>> THEN 0
  ELSE LET parts == split(clean(trim(timeStr))) IN
       IF Len(parts) = 2
         THEN OrZero(parseInt(parts[1])) * 60 + OrZero(parseInt(parts[2]))
       ELSE IF Len(parts) = 3
         THEN OrZero(parseInt(parts[1])) * 3600
              + OrZero(parseInt(parts[2])) * 60 + OrZero(parseInt(parts[3]))
       ELSE 0

\* SpecParse: parseTimeString applied to one text
TimeChars == {"0", "7", ":", " ", "x"}
NamedTimeTexts == {<<"1", ":", "2", "3">>, <<"0", ":", "4", "5">>,
                   <<"1", ":", "0", "2", ":", "0", "3">>}
TimeTexts ==
  UNION {[1..n -> TimeChars] : n \in 0..MaxTimeLen} \cup NamedTimeTexts

ParseTime ==
  /\ ev.op = "init"
  /\ result' = parseTimeString(input)
  /\ ev' = Observe([op |-> "parseTimeString"])
  /\ out' = Post(<<>>)
  /\ UNCHANGED <<now, coordVars, popupVars, watch, input, agentVars>>

InitParse == \E text \in TimeTexts : StartWith({"parseTimeString"}, text)
NextParse == ParseTime
SpecParse == InitParse /\ [][NextParse]_vars

\* ------------------------------------------------------ scoreMediaElement
\* The score is a JavaScript number.  A number is [int, hi, lo]: the value
\* int + (hi * Limb + lo) / Limb^2 with 0 <= hi, lo < Limb, that is a binary
\* fraction of 2 * LimbBits bits after the point, enough to hold every double
\* between 2^-6 and 2^8 exactly; a negative number has no fraction here.
LimbBits == 29
Limb == 2 ^ LimbBits
Significand == 53          \* significant bits of a double
Whole(n) == [int |-> n, hi |-> 0, lo |-> 0]

RECURSIVE FloorLog2(_)
FloorLog2(n) == IF n < 2 THEN 0 ELSE 1 + FloorLog2(n \div 2)

\* the binary exponent of a positive number of at least 2^-LimbBits
Exponent(x) ==
  IF x.int > 0 THEN FloorLog2(x.int) ELSE FloorLog2(x.hi) - LimbBits

\* the bits of the fraction a double of x's magnitude cannot hold
Dropped(x) == 2 * LimbBits - (Significand - 1 - Exponent(x))

\* carries out of the limbs
Carry(x) ==
  LET lo == x.lo % Limb
      hi == x.hi + x.lo \div Limb
  IN [int |-> x.int + hi \div Limb, hi |-> hi % Limb, lo |-> lo]

\* round to nearest, ties to even: x is the exact value cut after the fraction
\* bits, sticky tells that the exact value is larger than x
RoundToDouble(x, sticky) ==
  IF x.hi = 0 /\ x.lo = 0 /\ ~sticky THEN x
  ELSE LET unit == 2 ^ Dropped(x)
           rest == x.lo % unit
           kept == x.lo - rest
           odd == (x.lo \div unit) % 2 = 1
           up == \/ 2 * rest > unit
                 \/ 2 * rest = unit /\ (sticky \/ odd)
       IN Carry([x EXCEPT !.lo = IF up THEN kept + unit ELSE kept])

\* the first n bits of rem / divisor after the point, and what remains
RECURSIVE FractionBits(_, _, _, _)
FractionBits(rem, divisor, n, bits) ==
  IF n = 0 THEN [bits |-> bits, rem |-> rem]
  ELSE FractionBits((2 * rem) % divisor, divisor, n - 1,
                    2 * bits + (2 * rem) \div divisor)

\* seconds / divisor, for whole seconds >= 1 and a quotient below 2^8
Quotient(seconds, divisor) ==
  LET high == FractionBits(seconds % divisor, divisor, LimbBits, 0)
      low == FractionBits(high.rem, divisor, LimbBits, 0)
      cut == [int |-> seconds \div divisor, hi |-> high.bits, lo |-> low.bits]
  IN IF Dropped(cut) > 0
       THEN RoundToDouble(cut, low.rem > 0)
       ELSE \* every fraction bit is kept: the remainder decides
            LET odd == cut.lo % 2 = 1
                up == \/ 2 * low.rem > divisor
                      \/ 2 * low.rem = divisor /\ odd
            IN Carry([cut EXCEPT !.lo = IF up THEN @ + 1 ELSE @])

\* x + n for a whole n
Plus(x, n) == RoundToDouble([x EXCEPT !.int = @ + n], FALSE)
\* x + y for a whole x
Sum(x, y) == RoundToDouble([y EXCEPT !.int = @ + x.int], FALSE)
Less(x, y) ==
  \/ x.int < y.int
  \/ x.int = y.int /\ x.hi < y.hi
  \/ x.int = y.int /\ x.hi = y.hi /\ x.lo < y.lo
\* Math.min(x, n) for a whole n
Min(x, n) == IF x.int >= n THEN Whole(n) ELSE x

\* the weights of scoreMediaElement
Disabled == -1
NoData == -10
Playing == 100
Started == 50
SecondsPerPoint == 60
MaxDurationPoints == 30
Visible == 20
Video == 10
Unmuted == 10
HasSource == 5

\* element.duration is NaN, Infinity, or a number of whole seconds
NaNDuration == [kind |-> "NaN", seconds |-> 0]
InfiniteDuration == [kind |-> "Infinity", seconds |-> 0]
Seconds(n) == [kind |-> "finite", seconds |-> n]

\* Math.min(element.duration / 60, 30)
DurationPoints(duration) ==
  IF duration.kind = "Infinity" THEN Whole(MaxDurationPoints)
  ELSE Min(Quotient(duration.seconds, SecondsPerPoint), MaxDurationPoints)

\* (mutant) a playing element gets the points of a started one
PointsPlayingAsStarted(element) ==
  LET s1 == IF element.readyState = 0 THEN Whole(NoData) ELSE Whole(0)
      s2 == IF ~element.paused THEN Plus(s1, Started) ELSE s1
      s3 == IF element.currentTime > 0 THEN Plus(s2, Started) ELSE s2
      s4 == IF /\ element.duration.kind # "NaN"
               /\ ~(element.duration.kind = "finite"
                    /\ element.duration.seconds = 0)
              THEN Sum(s3, DurationPoints(element.duration)) ELSE s3
      s5 == IF element.offsetWidth > 0 /\ element.offsetHeight > 0
              THEN Plus(s4, Visible) ELSE s4
      s6 == IF element.tagName = "VIDEO" THEN Plus(s5, Video) ELSE s5
      s7 == IF ~element.muted THEN Plus(s6, Unmuted) ELSE s6
      s8 == IF element.hasSource THEN Plus(s7, HasSource) ELSE s7
  IN s8

\* scoreMediaElement(element) after its first test: the statements that add
\* to the score, in the order of the code
Points(element) ==
  LET s1 == IF element.readyState = 0 THEN Whole(NoData) ELSE Whole(0)
      s2 == IF ~element.paused THEN Plus(s1, Playing) ELSE s1
      s3 == IF element.currentTime > 0 THEN Plus(s2, Started) ELSE s2
      s4 == IF /\ element.duration.kind # "NaN"
               /\ ~(element.duration.kind = "finite"
                    /\ element.duration.seconds = 0)
              THEN Sum(s3, DurationPoints(element.duration)) ELSE s3
      s5 == IF element.offsetWidth > 0 /\ element.offsetHeight > 0
              THEN Plus(s4, Visible) ELSE s4
      s6 == IF element.tagName = "VIDEO" THEN Plus(s5, Video) ELSE s5
      s7 == IF ~element.muted THEN Plus(s6, Unmuted) ELSE s6
      s8 == IF element.hasSource THEN Plus(s7, HasSource) ELSE s7
  IN s8

\* (mutant) disableRemotePlayback is not looked at
scoreMediaElementIgnoringDisabled(element) == Points(element)

\* scoreMediaElement(element)
scoreMediaElement(element) ==
  IF element.disableRemotePlayback THEN Whole(Disabled) ELSE Points(element)

\* SpecScore: scoreMediaElement applied to one element, paused and playing
DurationChoices ==
  {NaNDuration, InfiniteDuration} \cup
  {Seconds(n) : n \in {0, 1, 59, 60, 100, 1799, 1800, 3600}}
\* an element without data (readyState 0) has neither a duration nor a
\* current time
MediaElements ==
  {e \in [disableRemotePlayback : BOOLEAN, readyState : {0, 4},
          paused : BOOLEAN, currentTime : {0, 5},
          duration : DurationChoices,
          offsetWidth : {0, 300}, offsetHeight : {0, 150},
          tagName : {"VIDEO", "AUDIO"}, muted : BOOLEAN,
          hasSource : BOOLEAN] :
     e.readyState = 0 => e.duration = NaNDuration /\ e.currentTime = 0}

ScoreElement ==
  /\ ev.op = "init"
  /\ result' = [paused |-> scoreMediaElement([input EXCEPT !.paused = TRUE]),
                playing |-> scoreMediaElement([input EXCEPT !.paused = FALSE])]
  /\ ev' = Observe([op |-> "scoreMediaElement"])
  /\ out' = Post(<<>>)
  /\ UNCHANGED <<now, coordVars, popupVars, watch, input, agentVars>>

InitScore ==
  \E element \in MediaElements : StartWith({"scoreMediaElement"}, element)
NextScore == ScoreElement
SpecScore == InitScore /\ [][NextScore]_vars

\* ------------------------------------------------------------ the agent
\* One MediaAgent, in the top frame of a tab.  page is its document: whether
\* the hostname is Spotify's, the video and audio elements in document order,
\* and what Spotify's player shows.  agent holds the fields of the object
\* (mediaElement, isVirtual, retryCount, seekInProgress for _seekInProgress,
\* updateThrottle: a timer is pending, set at throttleAt, which is 0 without
\* one) and what it has registered: started
\* (init ran), timers (pending calls of findAndAttachMedia), listeners (per
\* element, how many times each event handler is registered on it), monitors
\* (running Spotify intervals and observers), virtuals (virtual elements made),
\* virtual (the state of the virtual element last made: paused, duration and
\* the shadow fields _currentTime, _volume, _muted, an undefined _muted being
\* FALSE), seekWaits (pending waitForSeek callbacks), rechecks (pending 150 ms
\* timers of spotifySetMute).  Of Spotify's player the page tells whether the
\* play/pause button is rendered (controls), what the progress bar is ("none",
\* "works", or "broken": every way of seeking on it throws), what the volume
\* bar is ("none", a "range" input, or some "other" element), the value of
\* the volume input the poll reads, and the label of the mute button.  outbox holds the SESSION_UPDATE messages on their
\* way to the coordinator.
AgentContext == <<RouteTab, TopFrame>>
ElementIds == {"cast", "small", "clip", "good"}
\* what the four elements are: "cast" has disableRemotePlayback and is
\* otherwise the best candidate, "small" is an audio element without data,
\* "clip" a paused video, "good" a playing one.  "twin" is a fifth element, a
\* paused video like "clip", in documents where two candidates score the same.
Candidates == ElementIds \cup {"twin"}
Properties(e) ==
  [disableRemotePlayback |-> e = "cast",
   readyState |-> IF e = "small" THEN 0 ELSE 4,
   paused |-> e \in {"small", "clip", "twin"},
   currentTime |-> IF e \in {"cast", "good"} THEN 5 ELSE 0,
   duration |-> IF e = "small" THEN NaNDuration ELSE Seconds(100),
   offsetWidth |-> IF e = "small" THEN 0 ELSE 300,
   offsetHeight |-> IF e = "small" THEN 0 ELSE 150,
   tagName |-> IF e = "small" THEN "AUDIO" ELSE "VIDEO",
   muted |-> e = "small",
   hasSource |-> e # "small"]

NoElement == "null"
VirtualNames == <<"virtual1", "virtual2", "virtual3", "virtual4">>
VirtualHandle(n) == VirtualNames[n]
IsVirtualElement(element) == element \in {VirtualHandle(n) : n \in 1..MaxVirtuals}
NewVirtual ==
  [paused |-> TRUE, currentTime |-> 0, duration |-> 0,
   volume |-> NoVolume, muted |-> FALSE]

\* Math.max(0, Math.min(1, volume)), in hundredths
Clamp(volume) ==
  IF volume < 0 THEN 0 ELSE IF volume > FullVolume THEN FullVolume ELSE volume
\* this.mediaElement._volume || 1
VolumeOrFull(volume) == IF volume = NoVolume \/ volume = 0 THEN FullVolume ELSE volume
\* the pause button, [data-testid="control-button-playpause"] labelled Pause,
\* is found; the play button is
PauseButtonFound(pg) == pg.controls /\ pg.playing
PlayButtonFound(pg) == pg.controls /\ ~pg.playing

\* the snapshot sendSpotifyUpdate sends, unless a seek is in progress
sendSpotifyUpdate(a, pg) ==
  IF a.seekInProgress THEN <<>>
  ELSE LET virtual == IsVirtualElement(a.mediaElement) IN
       <<[state |-> [paused |-> ~PauseButtonFound(pg),
                     muted |-> IF virtual THEN a.virtual.muted ELSE FALSE,
                     volume |-> IF virtual THEN VolumeOrFull(a.virtual.volume)
                                ELSE FullVolume,
                     currentTime |-> IF virtual THEN a.virtual.currentTime
                                     ELSE 0,
                     duration |-> IF virtual THEN a.virtual.duration ELSE 0]]>>

\* element.duration || 0
DurationOrZero(duration) ==
  IF duration.kind = "finite" THEN duration.seconds ELSE 0

\* (mutant) sendUpdate without the test of _seekInProgress
sendUpdateDuringSeek(a, pg) ==
  IF a.mediaElement = NoElement THEN <<>>
  ELSE IF a.isVirtual THEN sendSpotifyUpdate(a, pg)
  ELSE <<[state |-> [paused |-> Properties(a.mediaElement).paused,
                     currentTime |-> Properties(a.mediaElement).currentTime,
                     duration |->
                       DurationOrZero(Properties(a.mediaElement).duration)]]>>

\* sendUpdate(): the messages it sends
sendUpdate(a, pg) ==
  IF a.mediaElement = NoElement THEN <<>>
  ELSE IF a.seekInProgress THEN <<>>
  ELSE IF a.isVirtual THEN sendSpotifyUpdate(a, pg)
  ELSE <<[state |-> [paused |-> Properties(a.mediaElement).paused,
                     currentTime |-> Properties(a.mediaElement).currentTime,
                     duration |->
                       DurationOrZero(Properties(a.mediaElement).duration)]]>>

\* detachFromElement(): removeEventListener is given a new bound function, so
\* no listener is removed; the pending updateThrottle timer is cleared
detachFromElement(a) ==
  [a EXCEPT !.mediaElement = NoElement, !.updateThrottle = FALSE,
            !.throttleAt = 0]

\* attachToElement(element): the agent after it, and the messages it sent
attachToElement(a, pg, element) ==
  LET detached == detachFromElement(a)
      attached ==
        [detached EXCEPT
           !.mediaElement = element,
           !.listeners = IF IsVirtualElement(element) THEN @
                         ELSE [@ EXCEPT ![element] = @ + 1]]
  IN [agent |-> attached, sent |-> sendUpdate(attached, pg)]

\* createSpotifyVirtualElement(), with startSpotifyMonitoring()
createSpotifyVirtualElement(a, pg) ==
  LET made == [a EXCEPT !.isVirtual = TRUE, !.virtuals = @ + 1,
                        !.virtual = NewVirtual]
      attached == attachToElement(made, pg, VirtualHandle(made.virtuals))
  IN [agent |-> [attached.agent EXCEPT !.monitors = @ + 1],
      sent |-> attached.sent]

\* (mutant) the comparison is >=: of equal scores the last one wins
BetterOrEqual(best, element, score) ==
  IF ~Less(score, best.score) THEN [element |-> element, score |-> score]
  ELSE best

\* if (score > bestScore) { bestScore = score; bestElement = element; }
Better(best, element, score) ==
  IF Less(best.score, score) THEN [element |-> element, score |-> score]
  ELSE best

\* the loop of findAndAttachMedia over the elements from the i-th on
RECURSIVE BestElement(_, _, _)
BestElement(elements, i, best) ==
  IF i > Len(elements) THEN best
  ELSE BestElement(elements, i + 1,
                   Better(best, elements[i],
                          scoreMediaElement(Properties(elements[i]))))

\* (mutant) discovery retries without counting
attachBestRetrying(a, pg, best) ==
  IF best.element # NoElement /\ ~Less(best.score, Whole(0))
    THEN attachToElement(a, pg, best.element)
  ELSE [agent |-> [a EXCEPT !.retryCount = @ + 1, !.timers = @ + 1],
        sent |-> <<>>]

\* the end of findAndAttachMedia: attach to the best element if its score is
\* not negative, else retry in 2 s, up to MaxRetries times
attachBest(a, pg, best) ==
  IF best.element # NoElement /\ ~Less(best.score, Whole(0))
    THEN attachToElement(a, pg, best.element)
  ELSE IF a.retryCount < MaxRetries
    THEN [agent |-> [a EXCEPT !.retryCount = @ + 1, !.timers = @ + 1],
          sent |-> <<>>]
  ELSE [agent |-> a, sent |-> <<>>]

\* findAndAttachMedia(): the agent after it, and the messages it sent
findAndAttachMedia(a, pg) ==
  IF pg.elements = <<>> /\ pg.spotify
    THEN createSpotifyVirtualElement(a, pg)
    ELSE attachBest(a, pg,
                    BestElement(pg.elements, 1,
                                [element |-> NoElement, score |-> Whole(-1)]))

\* the messages are sent; outbox keeps them when watch holds "outbox"
Sent(messages) == IF "outbox" \in watch THEN outbox \o messages ELSE outbox

\* a discovery run stays within the bounds of the model
WithinBounds(a) ==
  /\ a.timers <= MaxTimers
  /\ a.seekWaits <= MaxTimers
  /\ a.rechecks <= MaxTimers
  /\ a.virtuals <= MaxVirtuals
  /\ \A e \in Candidates : a.listeners[e] <= MaxListeners

\* the agent takes the step R computed; params is what the step was given
AgentTakes(op, R, params) ==
  /\ WithinBounds(R.agent)
  /\ Len(Sent(R.sent)) <= MaxOutbox
  /\ agent' = R.agent
  /\ outbox' = Sent(R.sent)
  /\ ev' = Observe([op |-> op, sent |-> Len(R.sent),
                    params |-> Detail(params), snapshots |-> Detail(R.sent),
                    attached |-> IF R.agent.mediaElement = agent.mediaElement
                                      /\ R.agent.listeners = agent.listeners
                                      /\ R.agent.virtuals = agent.virtuals
                                   THEN NoElement
                                   ELSE R.agent.mediaElement])

AgentStep(op, R) ==
  /\ AgentTakes(op, R, EmptyObject)
  /\ out' = Post(<<>>)

\* init(), after GET_TAB_ID was answered: the first findAndAttachMedia(), then
\* observeMediaElements()
AgentStarts ==
  /\ ~agent.started
  /\ AgentStep("agentInit",
            findAndAttachMedia([agent EXCEPT !.started = TRUE], page))
  /\ UNCHANGED <<now, coordVars, popupVars, watch, input, result, page>>

\* a retry or settle timer fires: findAndAttachMedia()
DiscoveryTimer ==
  /\ agent.timers > 0
  /\ AgentStep("findAndAttachMedia",
               findAndAttachMedia([agent EXCEPT !.timers = @ - 1], page))
  /\ UNCHANGED <<now, coordVars, popupVars, watch, input, result, page>>

\* the page inserts the element e after the first i elements; the mutation
\* observer of observeMediaElements schedules a discovery unless isVirtual
ElementAdded(e, i) ==
  /\ e \in ElementIds
  /\ \A k \in DOMAIN page.elements : page.elements[k] # e
  /\ Len(page.elements) < MaxElements
  /\ i \in 0..Len(page.elements)
  /\ page' = [page EXCEPT !.elements =
                SubSeq(@, 1, i) \o <<e>> \o SubSeq(@, i + 1, Len(@))]
  /\ AgentStep("elementAdded",
               [agent |-> IF agent.started /\ ~agent.isVirtual
                            THEN [agent EXCEPT !.timers = @ + 1]
                            ELSE agent,
                sent |-> <<>>])
  /\ UNCHANGED <<now, coordVars, popupVars, watch, input, result>>

\* the page removes the element e from the document
ElementRemoved(e) ==
  /\ \E k \in DOMAIN page.elements : page.elements[k] = e
  /\ page' = [page EXCEPT !.elements = SelectSeq(@, LAMBDA x : x # e)]
  /\ AgentStep("elementRemoved", [agent |-> agent, sent |-> <<>>])
  /\ UNCHANGED <<now, coordVars, popupVars, watch, input, result>>

\* handleMediaEvent(), run once
handleMediaEvent(a, pg) ==
  [agent |-> a, sent |-> IF ~a.isVirtual THEN sendUpdate(a, pg) ELSE <<>>]

\* (mutant) every timeupdate sends a snapshot at once
handleTimeUpdateAtOnce(a, pg) ==
  [agent |-> a, sent |-> IF ~a.isVirtual THEN sendUpdate(a, pg) ELSE <<>>]

\* handleTimeUpdate(), run once
handleTimeUpdate(a, pg) ==
  [agent |-> IF a.updateThrottle \/ a.isVirtual THEN a
             ELSE [a EXCEPT !.updateThrottle = TRUE, !.throttleAt = now],
   sent |-> <<>>]

\* the callback of observeSpotifyChanges, run once
observeSpotifyChanges(a, pg) ==
  [agent |-> a,
   sent |-> IF IsVirtualElement(a.mediaElement) THEN sendSpotifyUpdate(a, pg)
            ELSE <<>>]

\* the listener registered under a name, run once
Listener(name, a, pg) ==
  CASE name = "handleMediaEvent" -> handleMediaEvent(a, pg)
    [] name = "handleTimeUpdate" -> handleTimeUpdate(a, pg)
    [] name = "observeSpotifyChanges" -> observeSpotifyChanges(a, pg)

\* every registration of a handler on an element runs it, one after another
RECURSIVE Invoke(_, _, _, _)
Invoke(handler, n, R, pg) ==
  IF n = 0 THEN R
  ELSE LET next == Listener(handler, R.agent, pg) IN
       Invoke(handler, n - 1,
              [agent |-> next.agent, sent |-> R.sent \o next.sent], pg)

\* the element e fires play, pause, durationchange, volumechange, seeked,
\* emptied or ended
MediaEvent(e) ==
  /\ agent.listeners[e] > 0
  /\ LET R == Invoke("handleMediaEvent", agent.listeners[e],
                     [agent |-> agent, sent |-> <<>>], page)
     IN /\ Len(Sent(R.sent)) <= MaxOutbox
        /\ agent' = R.agent
        /\ outbox' = Sent(R.sent)
        /\ ev' = Observe([op |-> "mediaEvent", element |-> e,
                          invocations |-> agent.listeners[e],
                          sent |-> Len(R.sent)])
  /\ out' = Post(<<>>)
  /\ UNCHANGED <<now, coordVars, popupVars, watch, input, result, page>>

\* the element e fires timeupdate
TimeUpdate(e) ==
  /\ agent.listeners[e] > 0
  /\ LET R == Invoke("handleTimeUpdate", agent.listeners[e],
                     [agent |-> agent, sent |-> <<>>], page)
     IN /\ agent' = R.agent
        /\ outbox' = Sent(R.sent)
        /\ ev' = Observe([op |-> "timeupdate", element |-> e,
                          invocations |-> agent.listeners[e],
                          sent |-> Len(R.sent)])
  /\ out' = Post(<<>>)
  /\ UNCHANGED <<now, coordVars, popupVars, watch, input, result, page>>

\* when watch holds "fired", result is the times at which the updateThrottle
\* timer last fired, the last two of them
Fired(log) ==
  IF "fired" \notin watch THEN log
  ELSE IF Len(log) >= 2 THEN <<log[2], now>> ELSE Append(log, now)

\* the updateThrottle timer fires, delay after it was set and no earlier:
\* sendUpdate(), and the timer is forgotten
ThrottleTimerAfter(delay) ==
  /\ agent.updateThrottle
  /\ now >= agent.throttleAt + delay
  /\ AgentStep("updateThrottle",
               [agent |-> [agent EXCEPT !.updateThrottle = FALSE,
                                        !.throttleAt = 0],
                sent |-> sendUpdate(agent, page)])
  /\ result' = Fired(result)
  /\ UNCHANGED <<now, coordVars, popupVars, watch, input, page>>

\* the same where the clock stands still: the timer fires at some time
ThrottleTimer == ThrottleTimerAfter(0)

\* what Spotify's player shows as a time: nothing, 1:40, 0:50, or the time
\* remaining, -0:50
PlayerTexts ==
  {<<>>, <<"1", ":", "4", "0">>, <<"0", ":", "5", "0">>,
   <<"-", "0", ":", "5", "0">>}

\* the text of a time element, parsed if the element is there and has text
TimeShown(text) == IF text # <<>> THEN parseTimeString(text) ELSE 0

\* checkSpotifyState(), run by the interval of startSpotifyMonitoring
checkSpotifyState(a, pg) ==
  IF IsVirtualElement(a.mediaElement)
    THEN LET wasPlaying == ~a.virtual.paused
             polled == [a EXCEPT !.virtual =
                          [paused |-> PlayButtonFound(pg),
                           currentTime |-> TimeShown(pg.progressText),
                           duration |-> TimeShown(pg.durationText),
                           volume |-> IF pg.volumeInput # NoVolume
                                        THEN Clamp(pg.volumeInput) ELSE @.volume,
                           muted |-> IF pg.muteButton = "Unmute" THEN TRUE
                                     ELSE IF pg.muteButton = "Mute" THEN FALSE
                                     ELSE @.muted]]
         IN [agent |-> polled,
             sent |-> IF wasPlaying # PauseButtonFound(pg) \/ PauseButtonFound(pg)
                        THEN sendSpotifyUpdate(polled, pg) ELSE <<>>]
    ELSE [agent |-> a, sent |-> <<>>]

\* one of the running intervals ticks
SpotifyPoll ==
  /\ agent.monitors > 0
  /\ AgentStep("checkSpotifyState", checkSpotifyState(agent, page))
  /\ UNCHANGED <<now, coordVars, popupVars, watch, input, result, page>>

\* Spotify's player changes what it shows; every observer registered by
\* observeSpotifyChanges runs
PlayerChanges(playing, progressText, durationText) ==
  /\ page.spotify
  /\ page' = [page EXCEPT !.playing = playing,
                          !.progressText = progressText,
                          !.durationText = durationText]
  /\ page' # page
  /\ AgentStep("playerChanged",
               Invoke("observeSpotifyChanges", agent.monitors,
                      [agent |-> agent, sent |-> <<>>], page'))
  /\ UNCHANGED <<now, coordVars, popupVars, watch, input, result>>

\* spotifySeek(time): without a duration, without a progress bar, or when
\* every way of seeking on the bar fails, nothing changes; else _currentTime
\* is the time asked for
spotifySeek(a, pg, time) ==
  IF a.virtual.duration = 0 \/ pg.progressBar # "works" THEN a
  ELSE [a EXCEPT !.virtual.currentTime = time]

\* (mutant) the shadow volume is written only when a volume bar was found
spotifySetVolumeIfFound(a, pg, volume) ==
  IF pg.volumeBar = "none" THEN [agent |-> a, sent |-> <<>>, page |-> pg]
  ELSE LET set == [a EXCEPT !.virtual.volume = Clamp(volume),
                            !.virtual.muted = IF Clamp(volume) = 0 THEN TRUE ELSE @]
       IN [agent |-> set, sent |-> sendSpotifyUpdate(set, pg), page |-> pg]

\* spotifySetVolume(volume) with a virtual element attached: a range input
\* is given the value, another element is clicked at the place of the value;
\* then, whatever was found, _volume is the clamped volume, _muted is set
\* when that is 0, and sendSpotifyUpdate() runs
spotifySetVolume(a, pg, volume) ==
  LET set == [a EXCEPT !.virtual.volume = Clamp(volume),
                       !.virtual.muted = IF Clamp(volume) = 0 THEN TRUE ELSE @]
  IN [agent |-> set, sent |-> sendSpotifyUpdate(set, pg),
      page |-> IF pg.volumeBar = "range"
                 THEN [pg EXCEPT !.volumeInput = Clamp(volume)] ELSE pg]

\* spotifySetMute(muted): the mute button, if there is one, is clicked when
\* the player is not in the state asked for, and a timer of 150 ms is set
\* that runs checkSpotifyState() and sendSpotifyUpdate(); what the click does
\* to the player is the page's affair
spotifySetMute(a, pg, muted) ==
  [agent |-> [a EXCEPT !.rechecks = @ + 1], sent |-> <<>>, page |-> pg]

\* handleControlCommand(cmd, params) for beginSeek, endSeek, setTime (a native
\* element seeks and waitForSeek waits), setVolume and mute (a native element
\* is set, which the agent learns by its volumechange event)
handleControlCommand(a, pg, cmd, params) ==
  LET virtual == IsVirtualElement(a.mediaElement)
      same == [agent |-> a, sent |-> <<>>, page |-> pg]
  IN
  IF a.mediaElement = NoElement THEN same
  ELSE CASE cmd = "beginSeek" ->
              [same EXCEPT !.agent = [a EXCEPT !.seekInProgress = TRUE]]
         [] cmd = "endSeek" ->
              LET resumed == [a EXCEPT !.seekInProgress = FALSE] IN
              [agent |-> resumed, sent |-> sendUpdate(resumed, pg), page |-> pg]
         [] cmd = "setTime" ->
              IF "time" \notin DOMAIN params THEN same
              ELSE IF virtual
                THEN [same EXCEPT !.agent = spotifySeek(a, pg, params.time)]
              ELSE [same EXCEPT !.agent = [a EXCEPT !.seekWaits = @ + 1]]
         [] cmd = "setVolume" ->
              IF virtual /\ "volume" \in DOMAIN params
                THEN spotifySetVolume(a, pg, params.volume)
                ELSE same
         [] cmd = "mute" ->
              IF virtual
                THEN spotifySetMute(a, pg, IF "muted" \in DOMAIN params
                                             THEN params.muted
                                             ELSE ~a.virtual.muted)
                ELSE same

AgentCommands == {"beginSeek", "endSeek", "setTime", "setVolume"}

\* a MEDIA_CONTROL message for the agent's frame arrives
MediaControlWith(cmd, params) ==
  /\ agent.started
  /\ LET R == handleControlCommand(agent, page, cmd, params) IN
       /\ AgentTakes(IF agent.mediaElement = NoElement THEN "commandIgnored"
                     ELSE cmd, R, params)
       /\ page' = R.page
  /\ out' = Handled
  /\ UNCHANGED <<now, coordVars, popupVars, watch, input, result>>

\* the commands as the popup's drag and volume slider send them: a time, a
\* volume
SomeParams == [time |-> 0, volume |-> FullVolume]
MediaControl(cmd) == MediaControlWith(cmd, SomeParams)

\* the 150 ms timer of spotifySetMute fires: checkSpotifyState(), then
\* sendSpotifyUpdate()
MuteRecheck ==
  /\ agent.rechecks > 0
  /\ LET checked == checkSpotifyState([agent EXCEPT !.rechecks = @ - 1], page)
     IN AgentStep("muteRecheck",
                  [agent |-> checked.agent,
                   sent |-> checked.sent \o sendSpotifyUpdate(checked.agent, page)])
  /\ UNCHANGED <<now, coordVars, popupVars, watch, input, result, page>>

\* waitForSeek calls back (seeked, or 1200 ms later): sendUpdate()
SeekWaitDone ==
  /\ agent.seekWaits > 0
  /\ AgentStep("waitForSeek",
               [agent |-> [agent EXCEPT !.seekWaits = @ - 1],
                sent |-> sendUpdate(agent, page)])
  /\ UNCHANGED <<now, coordVars, popupVars, watch, input, result, page>>



\* SpecDiscovery: the agent finds and attaches to media elements while the
\* page adds and removes them
RECURSIVE Arrangements(_)
Arrangements(n) ==
  IF n = 0 THEN {<<>>}
  ELSE Arrangements(n - 1) \cup
       {Append(s, e) : s \in Arrangements(n - 1), e \in ElementIds}
Documents ==
  {s \in Arrangements(MaxElements) :
     \A i, j \in DOMAIN s : i # j => s[i] # s[j]}
InitialPages ==
  {[EmptyPage EXCEPT !.spotify = spotify, !.elements = elements] :
     spotify \in BOOLEAN, elements \in Documents}

InitDiscovery ==
  \E document \in InitialPages :
    StartAll({"agentInit", "findAndAttachMedia"}, Null, document)
NextDiscovery ==
  \/ AgentStarts
  \/ DiscoveryTimer
  \/ \E e \in ElementIds, i \in 0..MaxElements : ElementAdded(e, i)
  \/ \E e \in ElementIds : ElementRemoved(e)
SpecDiscovery == InitDiscovery /\ [][NextDiscovery]_vars

\* SpecSelect: discovery and its retries in documents of up to MaxElements of
\* the five elements, which the page may remove
SelectPages ==
  {[EmptyPage EXCEPT !.spotify = spotify, !.elements = elements] :
     spotify \in BOOLEAN,
     elements \in {s \in UNION {[1..n -> Candidates] : n \in 0..MaxElements} :
                     \A i, j \in DOMAIN s : i # j => s[i] # s[j]}}
InitSelect ==
  \E document \in SelectPages :
    StartAll({"agentInit", "findAndAttachMedia"}, Null, document)
NextSelect ==
  \/ AgentStarts
  \/ DiscoveryTimer
  \/ \E e \in Candidates : ElementRemoved(e)
SpecSelect == InitSelect /\ [][NextSelect]_vars

\* SpecEvents: the same, and the elements fire their events
InitEvents ==
  \E document \in InitialPages :
    StartAll({"agentInit", "findAndAttachMedia", "mediaEvent", "timeupdate",
              "updateThrottle"}, Null, document)
NextEvents ==
  \/ NextDiscovery
  \/ \E e \in ElementIds : MediaEvent(e)
  \/ \E e \in ElementIds : TimeUpdate(e)
  \/ ThrottleTimer
SpecEvents == InitEvents /\ [][NextEvents]_vars

\* SpecSeek: an agent, attached to a video or to Spotify's player, takes
\* commands while events, timers and polls go on
SeekPages ==
  {[EmptyPage EXCEPT !.spotify = spotify, !.elements = elements] :
     spotify \in BOOLEAN, elements \in {<<>>, <<"clip">>}}
AgentOps ==
  {"agentInit", "findAndAttachMedia", "elementAdded", "elementRemoved",
   "mediaEvent", "timeupdate", "updateThrottle", "checkSpotifyState",
   "playerChanged", "commandIgnored", "waitForSeek"} \cup AgentCommands
InitSeek == \E document \in SeekPages : StartAll(AgentOps, Null, document)
NextSeek ==
  \/ AgentStarts
  \/ DiscoveryTimer
  \/ ElementAdded("good", 0)
  \/ ElementRemoved("clip")
  \/ \E e \in ElementIds : MediaEvent(e)
  \/ \E e \in ElementIds : TimeUpdate(e)
  \/ ThrottleTimer
  \/ SpotifyPoll
  \/ \E playing \in BOOLEAN : PlayerChanges(playing, <<>>, <<>>)
  \/ \E cmd \in AgentCommands : MediaControl(cmd)
  \/ SeekWaitDone
SpecSeek == InitSeek /\ [][NextSeek]_vars

\* SpecMiss: a context whose media elements, if any, all score below 0: the
\* page adds and removes them, commands arrive, and on Spotify the player
\* changes and is polled.  No element gets a listener, so none of their
\* events reaches the agent.
Unplayable == {e \in Candidates : Less(scoreMediaElement(Properties(e)), Whole(0))}
MissPages ==
  {[EmptyPage EXCEPT !.spotify = spotify, !.elements = elements] :
     spotify \in BOOLEAN,
     elements \in {s \in Documents : \A i \in DOMAIN s : s[i] \in Unplayable}}
InitMiss ==
  \E document \in MissPages :
    StartAll(AgentOps \cup {"outbox"}, Null, document)
NextMiss ==
  \/ AgentStarts
  \/ DiscoveryTimer
  \/ \E e \in Unplayable, i \in 0..MaxElements : ElementAdded(e, i)
  \/ \E e \in Unplayable : ElementRemoved(e)
  \/ \E cmd \in AgentCommands : MediaControl(cmd)
  \/ SpotifyPoll
  \/ \E playing \in BOOLEAN : PlayerChanges(playing, <<>>, <<>>)
SpecMiss == InitMiss /\ [][NextMiss]_vars

\* SpecCoalesce: an agent attached to a video on a clock that ticks: the
\* elements fire their events, the updateThrottle timer fires when it is due,
\* seeks begin and end, and a second video is added
SeekBrackets == {"beginSeek", "endSeek"}
InitCoalesce ==
  StartAll(AgentOps \cup {"fired"}, Null, [EmptyPage EXCEPT !.elements = <<"clip">>])
NextCoalesce ==
  \/ Tick(TickMs)
  \/ Tick(CoalesceMs)
  \/ AgentStarts
  \/ DiscoveryTimer
  \/ ElementAdded("good", 0)
  \/ \E e \in ElementIds : MediaEvent(e)
  \/ \E e \in ElementIds : TimeUpdate(e)
  \/ ThrottleTimerAfter(CoalesceMs)
  \/ \E cmd \in SeekBrackets : MediaControl(cmd)
SpecCoalesce == InitCoalesce /\ [][NextCoalesce]_vars

\* SpecSnapshot: the agent's snapshots, of a native element or polled from
\* Spotify's player, reach the coordinator and are stored
\* runtime.sendMessage delivers the oldest snapshot: handleMessage, case
\* SESSION_UPDATE, and the callback of updateSession
SnapshotDelivered ==
  /\ outbox # <<>>
  /\ AgentContext[1] \in openTabs
  /\ lookups = <<>>
  /\ Callback([data |-> Head(outbox), tabId |-> AgentContext[1],
               frameId |-> AgentContext[2]])
  /\ outbox' = Tail(outbox)
  /\ UNCHANGED <<popupVars, watch, input, result, agent, page, now, openTabs,
                 agentTabs, agentFrameId, ports, lookups, commands>>

SnapshotPages ==
  {[EmptyPage EXCEPT !.spotify = spotify, !.elements = elements] :
     spotify \in BOOLEAN, elements \in {<<>>, <<"good">>}}
InitSnapshot ==
  \E document \in SnapshotPages :
    StartAll({"outbox", "updateSession", "checkSpotifyState"}, Null, document)
NextSnapshot ==
  \/ SnapshotDelivered
  \/ AgentStarts
  \/ DiscoveryTimer
  \/ \E e \in ElementIds : MediaEvent(e)
  \/ SpotifyPoll
  \/ \E playing \in BOOLEAN, progressText, durationText \in PlayerTexts :
       PlayerChanges(playing, progressText, durationText)
SpecSnapshot == InitSnapshot /\ [][NextSnapshot]_vars

\* ------------------------------------------------- Spotify: page automation
\* spotifyAction(action).  The document is given by the selectors that match
\* an element in it (matches) and those whose element throws on every dispatch
\* and on click() (dead).  The selectors are written without their quotes.
playSelectors ==
  <<"[data-testid=control-button-playpause]", "[aria-label*=Play]",
    "[aria-label*=Pause]", ".control-button", ".player-controls button">>
nextSelectors ==
  <<"[data-testid=control-button-skip-forward]",
    "[data-testid=control-button-next]", "[aria-label*=Next]", ".next-button",
    ".spoticon-skip-forward">>
prevSelectors ==
  <<"[data-testid=control-button-skip-back]",
    "[data-testid=control-button-previous]", "[aria-label*=Previous]",
    ".prev-button", ".spoticon-skip-back">>
areaSelectors ==
  <<"[data-testid=now-playing-widget]", ".now-playing", ".player-controls">>
Range(list) == {list[i] : i \in DOMAIN list}

\* dispatchClick(el) for the element the selector finds: true unless both the
\* dispatch and click() throw
dispatchClick(doc, selector) == selector \notin doc.dead

\* for (const selector of list) { querySelector; if (el && dispatchClick(el))
\* return }, from the i-th selector on: the selector whose element was clicked,
\* or "none" when the loop ends
RECURSIVE clickFirst(_, _, _)
clickFirst(doc, list, i) ==
  IF i > Len(list) THEN "none"
  ELSE IF list[i] \in doc.matches /\ dispatchClick(doc, list[i]) THEN list[i]
  ELSE clickFirst(doc, list, i + 1)

\* the last resort: the element at the centre of the first player area found
\* is clicked, whatever it is
clickCentre(doc) ==
  IF \E i \in DOMAIN areaSelectors : areaSelectors[i] \in doc.matches
    THEN <<"elementFromPoint">> ELSE <<>>

\* the track part of spotifyAction and what follows it, reached when no
\* play/pause selector led to a click
trackOrCentre(doc, action) ==
  LET track == IF action \in {"next", "previous"}
                 THEN clickFirst(doc,
                        IF action = "next" THEN nextSelectors ELSE prevSelectors, 1)
                 ELSE "none"
  IN IF track # "none" THEN <<track>> ELSE clickCentre(doc)

\* (mutant) next and previous go to their own selectors first
spotifyActionTrackFirst(doc, action) ==
  IF action \in {"next", "previous"} THEN trackOrCentre(doc, action)
  ELSE LET played == clickFirst(doc, playSelectors, 1) IN
       IF played # "none" THEN <<played>> ELSE clickCentre(doc)

\* spotifyAction(action): the selectors whose elements it clicks, after the
\* space key it sends to the active element whatever the action
spotifyAction(doc, action) ==
  LET played == clickFirst(doc, playSelectors, 1) IN
  IF played # "none" THEN <<played>> ELSE trackOrCentre(doc, action)

\* handleControlCommand, cases toggle (play or pause), previousTrack and
\* nextTrack, for a virtual element
SpotifyActions == {"play", "pause", "previous", "next"}
\* the selectors that match in the documents studied
ShownSelectors ==
  {playSelectors[1], playSelectors[4], nextSelectors[1], nextSelectors[4],
   prevSelectors[1], prevSelectors[4], areaSelectors[3]}
BrokenSelectors == {playSelectors[1], nextSelectors[1]}
PlayerDocuments ==
  {[matches |-> m, dead |-> d, action |-> a] :
     m \in SUBSET ShownSelectors, d \in SUBSET BrokenSelectors,
     a \in SpotifyActions}

SpotifyActs ==
  /\ ev.op = "init"
  /\ result' = spotifyAction(input, input.action)
  /\ ev' = Observe([op |-> "spotifyAction"])
  /\ out' = Post(<<>>)
  /\ UNCHANGED <<now, coordVars, popupVars, watch, input, agentVars>>

InitAction == \E doc \in PlayerDocuments : StartWith({"spotifyAction"}, doc)
NextAction == SpotifyActs
SpecAction == InitAction /\ [][NextAction]_vars

\* ------------------------------------------------------------------------
\* SpecVirtual: the agent on a Spotify page without media elements.  The
\* page's player is drawn with or without its play/pause button, its
\* progress bar, its volume bar and its mute button; the commands carry
\* times, volumes (in hundredths, also outside 0..100) and mute flags, or
\* no mute flag.
VirtualPages ==
  {[EmptyPage EXCEPT !.spotify = TRUE, !.controls = controls,
                     !.playing = playing,
                     !.durationText = <<"1", ":", "4", "0">>,
                     !.progressBar = progressBar, !.volumeBar = volumeBar,
                     !.volumeInput = IF volumeBar = "range" THEN FullVolume
                                     ELSE NoVolume,
                     !.muteButton = muteButton] :
     controls \in BOOLEAN, playing \in BOOLEAN,
     progressBar \in {"none", "works", "broken"},
     volumeBar \in {"none", "range", "other"},
     muteButton \in {"none", "Mute", "Unmute"}}
VirtualParams ==
  {[time |-> 50], [volume |-> 0 - 50], [volume |-> 0], [volume |-> 50],
   [volume |-> 150], [muted |-> TRUE], [muted |-> FALSE], EmptyObject}
VirtualOps == AgentOps \cup {"mute", "muteRecheck", "detail"}
InitVirtual ==
  \E document \in VirtualPages : StartAll(VirtualOps, Null, document)
NextVirtual ==
  \/ AgentStarts
  \/ SpotifyPoll
  \/ MuteRecheck
  \/ \E cmd \in {"setTime", "setVolume", "mute"}, params \in VirtualParams :
       MediaControlWith(cmd, params)
SpecVirtual == InitVirtual /\ [][NextVirtual]_vars

\* ------------------------------------------------------------------------
\* SpecRace: a tab is removed while tabs.get lookups for its snapshots are
\* pending.  The browser answers a lookup while the tab is open; the answer
\* reaches updateSession's continuation later, and nothing in the extension
\* API orders that delivery against the dispatch of tabs.onRemoved.  A lookup
\* the browser has answered carries the tab it was answered with.
Answered(l) == "tab" \in DOMAIN l

\* the browser answers tabs.get(tabId) with the open tab
TabLookupAnswered(i) ==
  /\ i \in 1..Len(lookups)
  /\ ~Answered(lookups[i])
  /\ lookups[i].tabId \in openTabs
  /\ lookups' = [lookups EXCEPT ![i] =
                   [data |-> @.data, tabId |-> @.tabId, frameId |-> @.frameId,
                    tab |-> TabTitle(@.tabId)]]
  /\ out' = Post(<<>>)
  /\ ev' = Observe([op |-> "lookupAnswered",
                    id |-> <<lookups[i].tabId, lookups[i].frameId>>])
  /\ UNCHANGED <<popupVars, restVars, now, openTabs, agentTabs, agentFrameId,
                 sessions, lastActiveSessionId, lastBroadcastTimestamps, ports,
                 commands, snapLog>>

\* the answer arrives: the continuation of tabs.get(tabId) runs
TabLookupDelivered(i) ==
  /\ i \in 1..Len(lookups)
  /\ Answered(lookups[i])
  /\ lookups' = Without(lookups, i)
  /\ Callback(lookups[i])
  /\ UNCHANGED <<popupVars, restVars, now, openTabs, agentTabs, agentFrameId,
                 ports, commands>>

\* the browser finds the tab gone: the promise is rejected
TabLookupRefused(i) ==
  /\ i \in 1..Len(lookups)
  /\ ~Answered(lookups[i])
  /\ TabLookupRejected(i)

InitRace == Start({"tabRemoved", "updateSession", "lookupAnswered", "out"})
NextRace ==
  \/ \E tab \in Tabs, r \in RandomFrameIds : AgentInit(tab, r)
  \/ \E tab \in Tabs : TabRemoved(tab)
  \/ \E c \in Contexts, data \in WellFormed : ReceiveSessionUpdate(c, data)
  \/ \E i \in 1..MaxInFlight : TabLookupAnswered(i)
  \/ \E i \in 1..MaxInFlight : TabLookupDelivered(i)
  \/ \E i \in 1..MaxInFlight : TabLookupRefused(i)
SpecRace == InitRace /\ [][NextRace]_vars

\* ------------------------------------------------------------------------
\* SpecMirror: the coordinator and one popup joined by the popup's port.  The
\* messages the coordinator posts wait in out until the popup's
\* handleBackgroundMessage takes them, in the order they were posted.
MaxQueued == 2           \* messages waiting on the popup's port
MirrorContext == <<RouteTab, TopFrame>>
\* snapshots with a full state: paused or playing, volume 0 or 1
MirrorSnapshots ==
  {[state |-> [paused |-> paused, muted |-> FALSE, volume |-> volume,
               currentTime |-> 0, duration |-> 0]] :
     paused \in BOOLEAN, volume \in {0, 1}}
\* this.sessions of the popup after the sessions of a list were set in it
AsMirror(list) == [id \in Ids(list) |-> Get(list, id)]

\* a snapshot of the agent arrives while the port has room
SnapshotArrives(data) ==
  /\ Len(out) < MaxQueued
  /\ SessionUpdate(MirrorContext, data)

\* runtime.connect of the popup reaches handlePopupConnection
PopupOpens ==
  /\ Len(out) < MaxQueued
  /\ PopupConnect("popup")

\* port.onMessage of the popup: handleBackgroundMessage(message); the
\* response of GET_SESSIONS, when the popup has asked, waits in out as well
PortMessage ==
  /\ out # <<>>
  /\ LET message == Head(out).msg IN
       CASE message.type = "SESSIONS_INIT" ->
              SessionsInit(AsMirror(message.sessions))
         [] message.type = "SESSION_UPDATED" ->
              SessionUpdatedWith(message.session.id, message.session)
         [] message.type = "SESSION_REMOVED" ->
              SessionRemoved(message.sessionId)
         \* the response of GET_SESSIONS reaches loadSessions
         [] message.type = "GET_SESSIONS" ->
              LoadSessions(AsMirror(message.sessions))

InitMirror ==
  Start({"port", "updateSession", "SESSION_UPDATED", "SESSIONS_INIT"})
NextMirror ==
  \/ Tick(TickMs)
  \/ \E data \in MirrorSnapshots : SnapshotArrives(data)
  \/ PopupOpens
  \/ PortMessage
SpecMirror == InitMirror /\ [][NextMirror]_vars
\* every message on the port is delivered in the end
SpecMirrorLive == SpecMirror /\ WF_vars(PortMessage)

\* ------------------------------------------------------------------------
\* SpecStartup: the popup starts up: it connects and asks GET_SESSIONS once.
\* The response travels apart from the port, so it and the port's messages
\* reach the popup in any order: in out the response and a neighbouring port
\* message may change places.  The snapshots carry the time they were made
\* at as currentTime, so of two records of a session the older is the one
\* with the smaller currentTime.
IsResponse(m) == m.msg.type = "GET_SESSIONS"
SnapshotAt(t, paused) ==
  [state |-> [paused |-> paused, muted |-> FALSE, volume |-> 1,
              currentTime |-> t - StartTime, duration |-> 0]]

\* handleMessage of the coordinator, case GET_SESSIONS: sendResponse
GetSessions ==
  /\ "popup" \in ports
  /\ result = Null
  /\ Len(out) < MaxQueued
  /\ result' = <<sessions>>
  /\ out' = Append(out, [msg |-> [type |-> "GET_SESSIONS", sessions |-> sessions],
                         to |-> {"popup"}])
  /\ ev' = Observe([op |-> "getSessions"])
  /\ UNCHANGED <<now, coordVars, popupVars, watch, input, agentVars>>

\* the response and a port message next to it change places
PassResponse(i) ==
  /\ i \in 1..(Len(out) - 1)
  /\ IsResponse(out[i]) # IsResponse(out[i + 1])
  /\ out' = [out EXCEPT ![i] = out[i + 1], ![i + 1] = out[i]]
  /\ ev' = Observe([op |-> "passResponse"])
  /\ UNCHANGED <<now, coordVars, popupVars, restVars>>

\* the agent's page unloads: SESSION_REMOVE
SessionGoes ==
  /\ Len(out) < MaxQueued
  /\ Has(sessions, MirrorContext)
  /\ ReceiveSessionRemove(MirrorContext)

InitStartup ==
  Start({"port", "GET_SESSIONS", "SESSION_UPDATED", "SESSIONS_INIT",
         "SESSION_REMOVED"})
NextStartup ==
  \/ Tick(TickMs)
  \/ \E paused \in BOOLEAN : SnapshotArrives(SnapshotAt(now, paused))
  \/ SessionGoes
  \/ PopupOpens
  \/ GetSessions
  \/ \E i \in 1..MaxQueued : PassResponse(i)
  \/ PortMessage
SpecStartup == InitStartup /\ [][NextStartup]_vars

\* ------------------------------------------------------------------------
\* SpecToggle: the popup of SpecMirror with its play/pause button.  What the
\* command does to the media, and so which snapshots follow a toggle, is
\* the page's affair: any snapshot may arrive, or none.
ToggleSnapshots == {d \in MirrorSnapshots : d.state.volume = 1}
InitToggle ==
  Start({"port", "toggle", "updateSession", "SESSION_UPDATED", "SESSIONS_INIT"})
NextToggle ==
  \/ Tick(PopupTickMs)
  \/ \E data \in ToggleSnapshots : SnapshotArrives(data)
  \/ PopupOpens
  \/ PortMessage
  \/ handleToggle(MirrorContext)
SpecToggle == InitToggle /\ [][NextToggle]_vars
SpecToggleLive == SpecToggle /\ WF_vars(PortMessage)

\* ------------------------------------------------------------------------
\* SpecSuppress: the popup's progress bar and the agent it commands.  The
\* popup sends beginSeek when a drag starts and setTime and endSeek when it
\* ends; the popup may be closed at any time, and with it go its listeners.
\* Two drags open at once stand for two popups dragging the same session.
SuppressPage == [EmptyPage EXCEPT !.elements = <<"good">>]
SeekableLists == {list \in DragLists : \A id \in DOMAIN list :
                    list[id].state.duration > 0}

\* mousedown on the progress bar
DragStarts(pct) ==
  /\ Len(out) < MaxQueued
  /\ startDrag(DragId, pct)

\* the popup's window closes: its document, its listeners and its state go;
\* what it has sent stays on its way
PopupCloses ==
  /\ ~listHidden
  /\ popupSessions' = [k \in {} |-> Null]
  /\ optimisticStates' = [k \in {} |-> Null]
  /\ cards' = [k \in {} |-> Null]
  /\ listHidden' = TRUE
  /\ toggled' = [k \in {} |-> Null]
  /\ drags' = <<>>
  /\ out' = Post(<<>>)
  /\ ev' = Observe([op |-> "popupClosed"])
  /\ UNCHANGED <<restVars, now, coordVars>>

\* a drag is over: the button is released, or the popup is closed
DragIsOver ==
  /\ drags # <<>>
  /\ (DragEnd \/ PopupCloses)

\* the command at the head of the queue reaches the agent
CommandArrives ==
  /\ out # <<>>
  /\ MediaControlWith(Head(out).data.cmd, Head(out).data.params)

InitSuppress ==
  StartAll(AgentOps \cup {"wire", "dragStart", "dragEnd", "popupClosed"},
           Null, SuppressPage)
NextSuppress ==
  \/ AgentStarts
  \/ MediaEvent("good")
  \/ SeekWaitDone
  \/ \E list \in SeekableLists : SessionsInit(list)
  \/ \E pct \in DragPercents : DragStarts(pct)
  \/ DragEnd
  \/ PopupCloses
  \/ CommandArrives
SpecSuppress == InitSuppress /\ [][NextSuppress]_vars
\* every command sent arrives, every timer fires, and every drag is over at
\* some time
SpecSuppressLive ==
  /\ SpecSuppress
  /\ WF_vars(CommandArrives)
  /\ WF_vars(SeekWaitDone)
  /\ WF_vars(DragIsOver)

\* ================================================================ claims
LastActiveAtOf(ss, id) == Get(ss, id).lastActiveAt
IsUpdated(m, id) == m.msg.type = "SESSION_UPDATED" /\ m.msg.session.id = id

\* C1: in every reachable state of the coordinator the active pointer is null
\* or the id of a session present in the registry.
ActivePointerValid ==
  lastActiveSessionId = Null \/ Has(sessions, lastActiveSessionId)

\* a command failure removed the active session and the pointer moved on
ActivePointerValidWitness ==
  /\ ev.op = "commandFailed"
  /\ ev.wasActive
  /\ lastActiveSessionId # Null

\* C2: a step that removes sessions, the active one among them, leaves the
\* pointer on a surviving session of greatest lastActiveAt, or null when none
\* survives; a step that removes only other sessions leaves the pointer alone.
RemovalReassignsActive ==
  [][LET removed == Ids(sessions) \ Ids(sessions') IN
     removed # {} =>
       IF lastActiveSessionId \in removed
         THEN IF Len(sessions') = 0
                THEN lastActiveSessionId' = Null
                ELSE /\ Has(sessions', lastActiveSessionId')
                     /\ \A id \in Ids(sessions') :
                          LastActiveAtOf(sessions', lastActiveSessionId')
                            >= LastActiveAtOf(sessions', id)
         ELSE lastActiveSessionId' = lastActiveSessionId]_vars

\* SESSION_REMOVE took the active session away; of the two survivors the later
\* one in Map order is the more recently active, and it is the active one now
RemovalReassignsActiveWitness ==
  /\ ev.op = "SESSION_REMOVE"
  /\ ev.wasActive
  /\ Len(sessions) = 2
  /\ sessions[1].lastActiveAt < sessions[2].lastActiveAt
  /\ lastActiveSessionId = sessions[2].id

\* C3: while a session id stays in the registry its lastActiveAt never
\* decreases (the clock never runs backwards).
LastActiveAtNeverDecreases ==
  [][\A id \in Ids(sessions) \cap Ids(sessions') :
       LastActiveAtOf(sessions', id) >= LastActiveAtOf(sessions, id)]_vars

\* a snapshot of an existing session raised its lastActiveAt
LastActiveAtNeverDecreasesWitness ==
  /\ ev.op = "updateSession"
  /\ ev.raised
  /\ LastActiveAtOf(sessions, ev.id) = now

\* the last two processed snapshots, when they are of one session that
\* existed before both and whose paused flag neither changed
SteadyPair ==
  /\ Len(snapLog) = 2
  /\ snapLog[1].id = snapLog[2].id
  /\ snapLog[1].steady
  /\ snapLog[2].steady
Broadcasts(log) == Cardinality({i \in 1..Len(log) : log[i].sent})

\* C4 as stated: two snapshots of an existing session without a paused change
\* give exactly one SESSION_UPDATED when processed less than 300 ms apart and
\* two when processed 300 ms or more apart.
ThrottlePairAsStated ==
  SteadyPair =>
    IF snapLog[2].at - snapLog[1].at < throttleMs
      THEN Broadcasts(snapLog) = 1
      ELSE Broadcasts(snapLog) = 2

\* C4 amended: a snapshot of an existing session without a paused change is
\* broadcast exactly when 300 ms or more have passed since the last broadcast
\* for its id; so of two such snapshots less than 300 ms apart at most one is
\* broadcast (the second never after the first was), and of two 300 ms or more
\* apart the second always is.
ThrottleByLastBroadcast ==
  /\ (ev.op = "updateSession" /\ ev.steady) =>
        ((\E i \in 1..Len(out) : IsUpdated(out[i], ev.id)) <=> ~ev.recent)
  /\ SteadyPair =>
        IF snapLog[2].at - snapLog[1].at < throttleMs
          THEN Broadcasts(snapLog) <= 1 /\ (snapLog[1].sent => ~snapLog[2].sent)
          ELSE snapLog[2].sent

\* two steady snapshots less than 300 ms apart: the first broadcast, the second
\* throttled
ThrottleByLastBroadcastWitness ==
  /\ SteadyPair
  /\ snapLog[2].at - snapLog[1].at < throttleMs
  /\ snapLog[1].sent
  /\ ~snapLog[2].sent
  /\ ev.op = "updateSession"
  /\ out = <<>>

\* C5: a snapshot that is the first for its session id, or whose paused flag
\* differs from the stored record's, is broadcast as SESSION_UPDATED with the
\* record just stored, however recent the last broadcast for that id.
TransitionAlwaysBroadcast ==
  (ev.op = "updateSession" /\ ~ev.steady) =>
    /\ Len(out) = 1
    /\ IsUpdated(out[1], ev.id)
    /\ out[1].msg.session = Get(sessions, ev.id)
    /\ out[1].to = ports

\* a paused/playing transition of an existing session, broadcast within 300 ms
\* of the previous broadcast for that session
TransitionAlwaysBroadcastWitness ==
  /\ ev.op = "updateSession"
  /\ ~ev.isNew
  /\ ~ev.steady
  /\ ev.recent
  /\ Len(out) = 1
  /\ ports # {}

\* the context a MEDIA_CONTROL message is meant for
Target(message) == <<message.tabId, message.frameId>>

\* C6: a command forwarded for session (tabId, frameId) is handled by the agent
\* of exactly that frame of that tab, and by no agent of another frame.
CommandHandledByItsFrame ==
  ev.op = "delivered" => ev.handledBy = {Target(ev.message)}

\* C7: a command forwarded for a registered session is handled by that
\* session's agent, or the session is removed from the registry; it is never
\* dropped while its session stays registered.
CommandHandledOrSessionRemoved ==
  /\ ev.op = "delivered" =>
       \/ Target(ev.message) \in ev.handledBy
       \/ ~Has(sessions, ev.message.sessionId)
  /\ ev.op = "commandFailed" => ~Has(sessions, ev.message.sessionId)

\* the verb and arguments each global shortcut stands for
ShortcutVerb(command) ==
  IF command = "toggle-play" THEN [cmd |-> "toggle", params |-> NoParams]
  ELSE IF command = "seek-forward"
    THEN [cmd |-> "seek", params |-> {<<"delta", SeekStep>>}]
    ELSE [cmd |-> "seek", params |-> {<<"delta", 0 - SeekStep>>}]

\* C8: a global shortcut sends one MEDIA_CONTROL message to the frame of the
\* session the active pointer designates, as toggle, seek(+10) or seek(-10);
\* with a null pointer it sends nothing and changes no state.
ShortcutTargetsActive ==
  [][ev'.op = "shortcut" =>
       IF lastActiveSessionId = Null
         THEN /\ out' = Post(<<>>)
              /\ UNCHANGED coordVars
         ELSE /\ Has(sessions, lastActiveSessionId)
              /\ commands' = Append(commands,
                   [sessionId |-> lastActiveSessionId,
                    tabId |-> Get(sessions, lastActiveSessionId).tabId,
                    type |-> "MEDIA_CONTROL",
                    frameId |-> Get(sessions, lastActiveSessionId).frameId,
                    cmd |-> ShortcutVerb(ev'.command).cmd,
                    params |-> ShortcutVerb(ev'.command).params])
              /\ UNCHANGED <<sessions, lastActiveSessionId,
                             lastBroadcastTimestamps>>]_vars

\* seek-backward was pressed while the sub-frame's session was the active one
ShortcutTargetsActiveWitness ==
  /\ ev.op = "shortcut"
  /\ ev.command = "seek-backward"
  /\ ev.message # Null
  /\ lastActiveSessionId = <<RouteTab, SubFrame>>
  /\ Len(commands) = 1
  /\ commands[1].params = {<<"delta", 0 - SeekStep>>}

\* the last toggle of a session is still in force: no SESSION_REMOVED for the
\* session since, and less than 1000 ms old
ToggleInForce(id) ==
  /\ ~toggled[id].removed
  /\ now - toggled[id].timestamp < OptimisticWindowMs

ToggleNegatesShown ==
  [][ev'.op = "toggle" =>
       LET id == ev'.id IN
       /\ cards'[id].isPaused = ~cards[id].isPaused
       /\ optimisticStates'[id].paused = ~cards[id].isPaused
       /\ id \in DOMAIN popupSessions =>
            optimisticStates'[id].paused = ~popupSessions[id].state.paused]_vars

\* ---------------------------------------------------------------- C11, C12
\* the card of id is flagged dragging when a message from the background
\* arrives, and the message leaves the card in the list
DraggedThrough(id) ==
  /\ ev'.op \in {"SESSION_UPDATED", "SESSIONS_INIT", "GET_SESSIONS"}
  /\ id \in DOMAIN cards
  /\ cards[id].dragging
  /\ id \in DOMAIN cards'

\* the step is a SESSION_UPDATED for the session of id
UpdateOf(id) == ev'.op = "SESSION_UPDATED" /\ ev'.id = id

\* C11 as stated: while the progress bar of a session is flagged dragging, no
\* SESSION_UPDATED and no re-render changes the rendered progress position, and
\* a SESSION_UPDATED for the session still updates the rendered title, volume,
\* mute and play/pause state.
DraggedCardAsStated ==
  [][\A id \in PopupIds : DraggedThrough(id) =>
       /\ cards'[id].progress = cards[id].progress
       /\ UpdateOf(id) =>
            /\ cards'[id].title = popupSessions'[id].title
            /\ cards'[id].volume = popupSessions'[id].state.volume
            /\ cards'[id].muted = popupSessions'[id].state.muted
            /\ cards'[id].isPaused = popupSessions'[id].state.paused]_vars

\* C11 amended: while the progress bar of a session is flagged dragging, no
\* SESSION_UPDATED and no re-render changes the rendered progress position, and
\* a SESSION_UPDATED for the session still updates the rendered title, mute and
\* play/pause state; it updates the rendered volume unless the volume slider
\* of the card has the focus, and then the slider keeps its value.
DraggedCardUnlessSliderFocused ==
  [][\A id \in PopupIds : DraggedThrough(id) =>
       /\ cards'[id].progress = cards[id].progress
       /\ UpdateOf(id) =>
            /\ cards'[id].title = popupSessions'[id].title
            /\ cards'[id].volume = IF cards[id].sliderFocused
                                     THEN cards[id].volume
                                     ELSE popupSessions'[id].state.volume
            /\ cards'[id].muted = popupSessions'[id].state.muted
            /\ cards'[id].isPaused = popupSessions'[id].state.paused]_vars

\* a dragged card has taken a SESSION_UPDATED whose position is not the one it
\* shows, and whose title, mute and play/pause state it shows
DraggedCardUnlessSliderFocusedWitness ==
  /\ ev.op = "SESSION_UPDATED"
  /\ ev.id \in DOMAIN cards
  /\ ev.id \in DOMAIN popupSessions
  /\ LET card == cards[ev.id]
         session == popupSessions[ev.id]
     IN /\ card.dragging
        /\ session.state.duration # 0
        /\ card.progress.fill #
             Percent(session.state.currentTime, session.state.duration)
        /\ card.title = session.title
        /\ card.muted = session.state.muted
        /\ card.isPaused = session.state.paused

\* the commands of a sequence of posted messages, as <<sessionId, cmd>> pairs
CommandsOf(posted) ==
  [k \in DOMAIN posted |-> <<posted[k].data.sessionId, posted[k].data.cmd>>]

\* what the drags that end together are to post: for each, setTime then endSeek
RECURSIVE EndCommands(_)
EndCommands(ds) ==
  IF ds = <<>> THEN <<>>
  ELSE <<<<Head(ds).id, "setTime">>, <<Head(ds).id, "endSeek">>>>
         \o EndCommands(Tail(ds))

\* C12: a drag start on a session whose duration is known posts exactly one
\* beginSeek and nothing else, a drag start on a session without duration posts
\* nothing, a move posts nothing, and the end of a drag posts exactly one
\* setTime followed by exactly one endSeek.
DragGesturePosts ==
  [][/\ (ev'.op = "dragStart" /\ ev'.id \in DOMAIN popupSessions) =>
          CommandsOf(ev'.posted) =
            IF popupSessions[ev'.id].state.duration # 0
              THEN <<<<ev'.id, "beginSeek">>>>
              ELSE <<>>
     /\ ev'.op = "dragMove" => ev'.posted = <<>>
     /\ ev'.op = "dragEnd" => CommandsOf(ev'.posted) = EndCommands(drags)]_vars

\* -------------------------------------------------------------------- C15
\* the event of the step is one the statement names for the session id: its
\* tab was removed, a SESSION_REMOVE for it was received, or a command routed
\* to it failed
NamedRemoval(id, session) ==
  \/ ev'.op = "tabRemoved" /\ ev'.tab = session.tabId
  \/ ev'.op = "SESSION_REMOVE" /\ ev'.id = id
  \/ ev'.op = "commandFailed" /\ ev'.message.sessionId = id

\* the tab of the session stopped being audible and is not on a music site
SilentNonMusicTab(session) ==
  /\ ev'.op = "audibleChange"
  /\ ev'.tab = session.tabId
  /\ ~ev'.audible
  /\ ~ev'.isMusicSite

\* C15 as stated: a registered session stays in the registry until its tab is
\* removed, a SESSION_REMOVE for its id is received, or a command routed to it
\* fails; no other event removes it.
RemovedOnlyAsStated ==
  [][\A id \in Ids(sessions) \ Ids(sessions') :
       NamedRemoval(id, Get(sessions, id))]_vars

\* C15 amended: a registered session stays in the registry until its tab is
\* removed, a SESSION_REMOVE for its id is received, a command routed to it
\* fails, or its still-open tab is reported not audible while its URL is not a
\* music site; no other event removes it.
RemovedOnlyForCause ==
  [][\A id \in Ids(sessions) \ Ids(sessions') :
       \/ NamedRemoval(id, Get(sessions, id))
       \/ SilentNonMusicTab(Get(sessions, id))]_vars

\* an audible change of an open tab (audible, or on a music site) has left the
\* tab's session in the registry
RemovedOnlyForCauseWitness ==
  /\ ev.op = "audibleChange"
  /\ ev.audible \/ ev.isMusicSite
  /\ \E i \in 1..Len(sessions) : sessions[i].tabId = ev.tab

\* -------------------------------------------------------------------- C18
\* the number a text of digits denotes
RECURSIVE Denoted(_)
Denoted(digits) ==
  IF digits = <<>> THEN 0
  ELSE 10 * Denoted(SubSeq(digits, 1, Len(digits) - 1))
         + DigitValue[digits[Len(digits)]]

Colons(text) == {k \in DOMAIN text : text[k] = ":"}
\* the fields of a text: what lies before, between and after its colons
Field(text, from, to) == SubSeq(text, from + 1, to - 1)
IsNumber(text) == text # <<>> /\ \A k \in DOMAIN text : IsDigit(text[k])

\* text reads MM:SS
IsMinSec(text) ==
  \E c \in DOMAIN text :
    /\ Colons(text) = {c}
    /\ IsNumber(Field(text, 0, c))
    /\ IsNumber(Field(text, c, Len(text) + 1))
\* text reads HH:MM:SS
IsHourMinSec(text) ==
  \E c, d \in DOMAIN text :
    /\ c < d
    /\ Colons(text) = {c, d}
    /\ IsNumber(Field(text, 0, c))
    /\ IsNumber(Field(text, c, d))
    /\ IsNumber(Field(text, d, Len(text) + 1))
\* text is empty or cannot be read as a time: it has no digit, or it has
\* neither one colon nor two
Unparseable(text) ==
  \/ \A k \in DOMAIN text : ~IsDigit(text[k])
  \/ Cardinality(Colons(text)) \notin {1, 2}

\* C18: parseTimeString maps MM:SS to 60*MM+SS and HH:MM:SS to
\* 3600*HH+60*MM+SS ("1:23" to 83, "0:45" to 45, "1:02:03" to 3723), and
\* returns 0 for empty or unparseable text.
ParsesClockTexts ==
  ev.op = "parseTimeString" =>
    /\ \A c \in DOMAIN input :
         Colons(input) = {c} /\ IsMinSec(input) =>
           result = 60 * Denoted(Field(input, 0, c))
                    + Denoted(Field(input, c, Len(input) + 1))
    /\ \A c, d \in DOMAIN input :
         c < d /\ Colons(input) = {c, d} /\ IsHourMinSec(input) =>
           result = 3600 * Denoted(Field(input, 0, c))
                    + 60 * Denoted(Field(input, c, d))
                    + Denoted(Field(input, d, Len(input) + 1))
    /\ input = <<"1", ":", "2", "3">> => result = 83
    /\ input = <<"0", ":", "4", "5">> => result = 45
    /\ input = <<"1", ":", "0", "2", ":", "0", "3">> => result = 3723
    /\ Unparseable(input) => result = 0
    /\ result \in Nat

\* "1:02:03" has been parsed to 3723
ParsesClockTextsWitness ==
  /\ ev.op = "parseTimeString"
  /\ input = <<"1", ":", "0", "2", ":", "0", "3">>
  /\ IsHourMinSec(input)
  /\ result = 3723

\* -------------------------------------------------------------------- C17
\* how far apart two numbers are, in units of the last fraction bit; numbers
\* further apart than one limb count as Limb apart
Apart(x, y) ==
  LET a == IF Less(x, y) THEN y ELSE x
      b == IF Less(x, y) THEN x ELSE y
      near == IF a.int = b.int /\ a.hi = b.hi THEN a.lo - b.lo
              ELSE IF a.int = b.int /\ a.hi = b.hi + 1
                     THEN Limb + a.lo - b.lo
              ELSE IF a.int = b.int + 1 /\ a.hi = 0 /\ b.hi = Limb - 1
                     THEN Limb + a.lo - b.lo
              ELSE Limb
  IN IF near > Limb THEN Limb ELSE near

\* the duration of the element adds a whole number of points, or none
WholeDurationPoints(element) ==
  \/ element.duration.kind # "finite"
  \/ element.duration.seconds % SecondsPerPoint = 0
  \/ element.duration.seconds >= SecondsPerPoint * MaxDurationPoints

\* 2^-45, in units of the last fraction bit
RoundingSlack == 2 ^ (2 * LimbBits - 45)

\* C17 as stated: for two candidates without disableRemotePlayback that differ
\* only in paused, the score of the playing one is the score of the paused one
\* plus exactly 100.
PlayingBonusExact ==
  (ev.op = "scoreMediaElement" /\ ~input.disableRemotePlayback) =>
    result.playing = [result.paused EXCEPT !.int = @ + Playing]

\* C17 amended: for two candidates without disableRemotePlayback that differ
\* only in paused, the score of the playing one is the score of the paused one
\* plus 100 up to the rounding of the duration term: exactly 100 when the
\* duration adds a whole number of points (unknown, zero or infinite duration,
\* a multiple of 60 s, 1800 s or more), and within 2^-45 of 100 otherwise.
PlayingBonusRounded ==
  (ev.op = "scoreMediaElement" /\ ~input.disableRemotePlayback) =>
    LET shifted == [result.paused EXCEPT !.int = @ + Playing] IN
    /\ WholeDurationPoints(input) => result.playing = shifted
    /\ Apart(result.playing, shifted) <= RoundingSlack

\* a playing element whose duration adds a fraction of a point has a score
\* that is not the paused score plus 100, and is within 2^-45 of it
PlayingBonusRoundedWitness ==
  /\ ev.op = "scoreMediaElement"
  /\ ~input.disableRemotePlayback
  /\ ~WholeDurationPoints(input)
  /\ result.playing # [result.paused EXCEPT !.int = @ + Playing]
  /\ Apart(result.playing, [result.paused EXCEPT !.int = @ + Playing])
       <= RoundingSlack

\* ---------------------------------------------------------- C16, C19, C20
DisabledIn(elements) ==
  {k \in DOMAIN elements : Properties(elements[k]).disableRemotePlayback}

\* C16: scoreMediaElement returns -1 for every candidate with
\* disableRemotePlayback, and findAndAttachMedia never attaches to such a
\* candidate, whatever the other candidates score and also when it is alone.
DisabledNeverAttached ==
  /\ \A k \in DisabledIn(page.elements) :
       scoreMediaElement(Properties(page.elements[k])) = Whole(Disabled)
  /\ \A e \in ElementIds :
       Properties(e).disableRemotePlayback =>
         agent.mediaElement # e /\ agent.listeners[e] = 0

\* findAndAttachMedia has run on a document whose candidates are one with
\* disableRemotePlayback and, at most, others that score below 0, and has
\* attached to none
DisabledNeverAttachedWitness ==
  /\ ev.op \in {"agentInit", "findAndAttachMedia"}
  /\ DisabledIn(page.elements) # {}
  /\ \A k \in DOMAIN page.elements :
       Less(scoreMediaElement(Properties(page.elements[k])), Whole(0))
  /\ ev.attached = NoElement
  /\ ev.sent = 0

\* the step is an event of the element the agent is attached to
OfCurrentElement == ev'.element = agent.mediaElement

\* C19: once the agent has attached to a new element, the events of an
\* element it was attached to before cause no snapshot, every event of the
\* current element runs its handler at most once, and no coalescing timer of
\* the previous element is pending.
PreviousElementSilenced ==
  [][/\ ev'.op \in {"mediaEvent", "timeupdate"} =>
          /\ ~OfCurrentElement => ev'.sent = 0 /\ ~agent'.updateThrottle
          /\ OfCurrentElement => ev'.invocations <= 1
     /\ (ev'.op \in {"agentInit", "findAndAttachMedia"} /\ ev'.attached # NoElement) =>
          ~agent'.updateThrottle]_vars

\* C20: once the agent is in virtual mode, its media element is the virtual
\* element in every later state: no discovery run attaches a native element
\* or makes a second virtual element.
VirtualModeSticks ==
  agent.isVirtual =>
    /\ agent.mediaElement = VirtualHandle(1)
    /\ agent.virtuals = 1
    /\ agent.monitors = 1

\* -------------------------------------------------------------------- C13
\* C13: from the beginSeek an agent handles until the endSeek it handles, no
\* handler of the agent (media event, timeupdate timer, poll, observer, seek
\* callback, discovery) sends a SESSION_UPDATE; the endSeek it handles ends
\* the suppression and sends exactly one.  A command is dropped for want of
\* a media element only while nothing is suppressed.
SuppressedWhileSeeking ==
  [][/\ ev'.op = "beginSeek" => agent'.seekInProgress /\ ev'.sent = 0
     /\ ev'.op = "commandIgnored" => ~agent.seekInProgress
     /\ (agent.seekInProgress /\ ev'.op # "endSeek") =>
          ev'.sent = 0 /\ agent'.seekInProgress
     /\ ev'.op = "endSeek" => ~agent'.seekInProgress /\ ev'.sent = 1]_vars

\* an event of the agent's element ran its handler during a seek and nothing
\* was sent
SuppressedWhileSeekingWitness ==
  /\ ev.op = "mediaEvent"
  /\ ev.element = agent.mediaElement
  /\ ev.invocations > 0
  /\ agent.seekInProgress
  /\ ~agent.isVirtual
  /\ ev.sent = 0

\* -------------------------------------------------------------------- C14
\* C14: every session stored in the registry whose duration is known (above
\* zero) has a currentTime from 0 to that duration, whether the snapshot came
\* from a media element or from Spotify's player.
StoredTimeWithinDuration ==
  \A id \in Ids(sessions) :
    LET state == Get(sessions, id).state IN
    state.duration > 0 =>
      0 <= state.currentTime /\ state.currentTime <= state.duration

\* -------------------------------------------------------------------- C21
\* C21: the snapshots of one session are processed (stored, and broadcast as
\* SESSION_UPDATED) in the order in which they arrived: the callback of
\* updateSession never runs for a snapshot while a different snapshot of the
\* same session that arrived earlier still waits for its tab lookup.
ProcessedInArrivalOrder ==
  [][\A i \in 1..Len(lookups) :
       (lookups' = Without(lookups, i) /\ ev'.op = "updateSession") =>
         \A j \in 1..(i - 1) :
           (lookups[j].tabId = lookups[i].tabId
              /\ lookups[j].frameId = lookups[i].frameId) =>
             lookups[j].data = lookups[i].data]_vars

\* -------------------------------------------------------------------- C22
\* C22: once the popup has processed SESSION_REMOVED for an id, its mirror
\* holds no session of that id, no card of that id is left in the list, and
\* the list is hidden (the empty state shown) if the mirror became empty; once
\* it has processed SESSION_UPDATED, the mirror's entry of that id is the
\* session that was broadcast.
MirrorFollowsBroadcasts ==
  [][/\ ev'.op = "SESSION_REMOVED" =>
          /\ ev'.id \notin DOMAIN popupSessions'
          /\ ev'.id \notin DOMAIN cards'
          /\ (DOMAIN popupSessions' = {} => listHidden')
     /\ ev'.op = "SESSION_UPDATED" =>
          popupSessions'[ev'.id] = SessionOf(ev'.paused)]_vars

\* -------------------------------------------------------------------- C23
\* C23: a SESSION_UPDATE whose data has no state is dropped: the registry
\* (every record, so the one of that session id too), the active pointer and
\* the last-broadcast timestamps are as before and nothing is broadcast; the
\* next snapshot with a state is stored as usual.
MalformedSnapshotDropped ==
  [][/\ ev'.op = "updateSessionThrew" =>
          /\ sessions' = sessions
          /\ lastActiveSessionId' = lastActiveSessionId
          /\ lastBroadcastTimestamps' = lastBroadcastTimestamps
          /\ out' = Post(<<>>)
     /\ (ev.op = "updateSessionThrew" /\ ev'.op = "updateSession") =>
          /\ Has(sessions', ev'.id)
          /\ ev'.isNew = ~Has(sessions, ev'.id)]_vars

\* a snapshot without state came for a session that is registered, playing
\* and was last broadcast a throttle interval ago: the read that throws is the
\* last one before the store
MalformedSnapshotDroppedWitness ==
  /\ ev.op = "updateSessionThrew"
  /\ ev.at = "isStateChange"
  /\ Has(sessions, ev.id)
  /\ ~Get(sessions, ev.id).state.paused
  /\ now - TimestampOf(lastBroadcastTimestamps, ev.id) >= throttleMs
  /\ ports # {}

\* -------------------------------------------------------------------- C24
\* C24: whenever the active pointer is not null it designates the registered
\* session whose entry into the playing state (paused to playing, or creation
\* while playing) was processed most recently among the registered sessions.
ActiveIsLatestEntryAsStated ==
  lastActiveSessionId # Null =>
    /\ snapLog # <<>>
    /\ snapLog[Len(snapLog)].id = lastActiveSessionId

\* C24, amended: whenever the active pointer is not null it designates a
\* registered session whose lastActiveAt is not earlier than the latest entry
\* into the playing state of any registered session, and it is not null while
\* a registered session has entered the playing state.  (After the removal of
\* the active session it is the survivor of greatest lastActiveAt, which can
\* be a session that was created paused and never played.)
ActiveNotBeforeAnyEntry ==
  /\ snapLog # <<>> => lastActiveSessionId # Null
  /\ lastActiveSessionId # Null =>
       /\ Has(sessions, lastActiveSessionId)
       /\ \A i \in 1..Len(snapLog) :
            /\ Has(sessions, snapLog[i].id)
            /\ snapLog[i].at = LastActiveAtOf(sessions, snapLog[i].id)
            /\ snapLog[i].at <= LastActiveAtOf(sessions, lastActiveSessionId)

\* the active session was removed and the pointer fell to a session that has
\* never played, although another registered session has
ActiveNotBeforeAnyEntryWitness ==
  /\ ev.op = "SESSION_REMOVE"
  /\ ev.wasActive
  /\ lastActiveSessionId # Null
  /\ snapLog # <<>>
  /\ \A i \in 1..Len(snapLog) : snapLog[i].id # lastActiveSessionId

\* -------------------------------------------------------------------- C25
\* C25: processing a snapshot for session s sets s.lastActiveAt to now and the
\* active pointer to s when s is new and playing, or its record was paused and
\* the snapshot is playing; a new paused session gets lastActiveAt = now and
\* the pointer stays; in every other case lastActiveAt is the one of the
\* previous record and the pointer stays.
ActivityStampedOnEntry ==
  [][ev'.op = "updateSession" =>
       LET id == ev'.id
           hasPrev == Has(sessions, id)
           playing == ~Get(sessions', id).state.paused
           wasPaused == Get(sessions, id).state.paused
       IN /\ Has(sessions', id)
          /\ IF playing /\ (hasPrev => wasPaused)
               THEN /\ LastActiveAtOf(sessions', id) = now
                    /\ lastActiveSessionId' = id
             ELSE IF ~hasPrev
               THEN /\ LastActiveAtOf(sessions', id) = now
                    /\ lastActiveSessionId' = lastActiveSessionId
             ELSE /\ LastActiveAtOf(sessions', id) = LastActiveAtOf(sessions, id)
                  /\ lastActiveSessionId' = lastActiveSessionId]_vars

\* a progress snapshot of a playing session that is not the active one, later
\* than its lastActiveAt, has been processed: its lastActiveAt is the old one
\* and the pointer is where it was
ActivityStampedOnEntryWitness ==
  /\ ev.op = "updateSession"
  /\ ev.steady
  /\ ~Get(sessions, ev.id).state.paused
  /\ LastActiveAtOf(sessions, ev.id) < now
  /\ lastActiveSessionId \notin {Null, ev.id}
  /\ LastActiveAtOf(sessions, ev.id) < LastActiveAtOf(sessions, lastActiveSessionId)

\* a paused session that is not the active one resumed: it is the active one
\* and its lastActiveAt is now
ResumedSessionIsActive ==
  /\ ev.op = "updateSession"
  /\ ~ev.isNew
  /\ ev.raised
  /\ lastActiveSessionId = ev.id
  /\ Len(sessions) = 2
  /\ \E i \in 1..Len(sessions) :
       /\ sessions[i].id # ev.id
       /\ ~sessions[i].state.paused
       /\ sessions[i].lastActiveAt < now

\* -------------------------------------------------------------------- C26
\* C26: after a well-formed snapshot is processed the registry record of its
\* session id holds that snapshot's state, title and artwork, broadcast or
\* not; a throttled (not broadcast) snapshot leaves the last-broadcast
\* timestamps as they were.
RecordHoldsSnapshotAsStated ==
  [][ev'.op = "updateSession" =>
       /\ Has(sessions', ev'.id)
       /\ Get(sessions', ev'.id).state = ev'.data.state
       /\ Get(sessions', ev'.id).title = ev'.data.title
       /\ Get(sessions', ev'.id).artworkUrl = ev'.data.artworkUrl
       /\ out' = <<>> => lastBroadcastTimestamps' = lastBroadcastTimestamps]_vars

\* C26, amended: the record holds the snapshot's state and artwork, and the
\* snapshot's title unless that is empty, when it holds the title of the tab;
\* broadcast or not; a throttled snapshot leaves the timestamps as they were.
RecordHoldsSnapshot ==
  [][ev'.op = "updateSession" =>
       /\ Has(sessions', ev'.id)
       /\ Get(sessions', ev'.id).state = ev'.data.state
       /\ Get(sessions', ev'.id).title =
            (IF ev'.data.title # "" THEN ev'.data.title ELSE TabTitle(ev'.id[1]))
       /\ Get(sessions', ev'.id).artworkUrl = ev'.data.artworkUrl
       /\ out' = <<>> => lastBroadcastTimestamps' = lastBroadcastTimestamps]_vars

\* a throttled progress snapshot without a title has been stored: the record
\* carries the tab's title and the snapshot's artwork, and the last broadcast
\* is an earlier one
RecordHoldsSnapshotWitness ==
  /\ ev.op = "updateSession"
  /\ ev.steady /\ ev.recent
  /\ out = <<>>
  /\ ev.data.title = ""
  /\ ev.data.artworkUrl = "cover.png"
  /\ Get(sessions, ev.id).title = TabTitle(ev.id[1])
  /\ Get(sessions, ev.id).artworkUrl = "cover.png"
  /\ TimestampOf(lastBroadcastTimestamps, ev.id) < now

\* -------------------------------------------------------------------- C27
\* the score of the i-th element of the document
ScoreAt(i) == scoreMediaElement(Properties(page.elements[i]))
\* the i-th element has the greatest score and is the first that has it
FirstOfTheBest(i) ==
  /\ \A j \in DOMAIN page.elements : ~Less(ScoreAt(i), ScoreAt(j))
  /\ \A j \in 1..(i - 1) : Less(ScoreAt(j), ScoreAt(i))

SilentMissAsStated ==
  /\ agent.retryCount <= MaxRetries
  /\ outbox = <<>>

\* C28, amended: in such a context discovery schedules at most 5 delayed
\* retries in all (every retry is counted, a run of discovery after the fifth
\* schedules none), no element gets a listener, and the agent sends no
\* SESSION_UPDATE unless it is in virtual mode, which it enters only on
\* Spotify when discovery finds no media element at all.
SilentMiss ==
  /\ [](/\ agent.retryCount <= MaxRetries
        /\ \A e \in Candidates : agent.listeners[e] = 0
        /\ agent.isVirtual => page.spotify
        /\ ~agent.isVirtual => outbox = <<>> /\ agent.mediaElement = NoElement)
  /\ [][/\ ev'.op \in {"agentInit", "findAndAttachMedia"} =>
            /\ agent'.isVirtual /\ ~agent.isVirtual =>
                 page.spotify /\ page.elements = <<>>
            /\ agent'.timers > agent.timers - (IF ev'.op = "agentInit" THEN 0 ELSE 1) =>
                 /\ agent.retryCount < MaxRetries
                 /\ agent'.retryCount = agent.retryCount + 1
                 /\ agent'.timers = agent.timers + (IF ev'.op = "agentInit" THEN 1 ELSE 0)
            /\ ~agent'.isVirtual => ev'.sent = 0
        /\ ev'.op \notin {"agentInit", "findAndAttachMedia"} =>
             agent'.retryCount = agent.retryCount]_vars

\* the run of discovery after the fifth retry found an element, none that
\* scores at least 0, and scheduled nothing: no timer is pending, nothing is
\* attached and nothing was sent
SilentMissWitness ==
  /\ ev.op = "findAndAttachMedia"
  /\ agent.retryCount = MaxRetries
  /\ agent.timers = 0
  /\ page.elements # <<>>
  /\ agent.mediaElement = NoElement
  /\ outbox = <<>>

\* -------------------------------------------------------------------- C29
\* what C29 says of timeupdate: a timeupdate sends nothing itself; while a
\* timer is pending it schedules nothing, else it sets the one timer; the
\* timer fires no earlier than 250 ms after it was set, sends at most one
\* snapshot, and two firings are at least 250 ms apart
TimeUpdatesCoalesced ==
  /\ ev'.op = "timeupdate" =>
       /\ ev'.sent = 0
       /\ agent.updateThrottle => agent' = agent
       /\ ~agent.updateThrottle /\ ~agent.isVirtual =>
            agent' = [agent EXCEPT !.updateThrottle = TRUE, !.throttleAt = now]
  /\ ev'.op = "updateThrottle" =>
       /\ ev'.sent <= 1
       /\ now >= agent.throttleAt + CoalesceMs
       /\ ~agent'.updateThrottle
       /\ Len(result') = 2 => result'[2] - result'[1] >= CoalesceMs

RemovedExactly(gone) ==
  /\ Ids(sessions') = Ids(sessions) \ gone
  /\ \A id \in Ids(sessions') : Get(sessions', id) = Get(sessions, id)
  /\ Len(out') = Cardinality(gone)
  /\ \A id \in gone :
       Cardinality({i \in 1..Len(out') :
                      out'[i] = [msg |-> [type |-> "SESSION_REMOVED",
                                          sessionId |-> id],
                                 to |-> ports]}) = 1

\* C30: removing a tab removes every session whose tabId is that tab and
\* broadcasts one SESSION_REMOVED for each, the records of the sessions of
\* other tabs being unchanged; a failed command delivery for a session removes
\* that session only.
RemovalTouchesOnlyItsSessions ==
  [][/\ ev'.op = "tabRemoved" =>
          RemovedExactly({sessions[i].id : i \in {k \in 1..Len(sessions) :
                                                  sessions[k].tabId = ev'.tab}})
     /\ ev'.op = "commandFailed" =>
          RemovedExactly({ev'.message.sessionId} \cap Ids(sessions))]_vars

\* a tab with two sessions was removed while a popup was connected: two
\* SESSION_REMOVED went out and the session of the other tab is registered
RemovalTouchesOnlyItsSessionsWitness ==
  /\ ev.op = "tabRemoved"
  /\ Len(out) = 2
  /\ ports # {}
  /\ Len(sessions) = 1
  /\ sessions[1].tabId # ev.tab

\* -------------------------------------------------------------------- C31
\* C31: a previousTrack or nextTrack command on a virtual handle activates the
\* first matching control of the previous-track or next-track selector list,
\* and not the play/pause control, whenever the page has both a play/pause
\* control and the requested track control.
TrackCommandClicksTrackControl ==
  (/\ ev.op = "spotifyAction"
   /\ input.action \in {"next", "previous"}
   /\ Range(playSelectors) \cap (input.matches \ input.dead) # {}
   /\ Range(IF input.action = "next" THEN nextSelectors ELSE prevSelectors)
        \cap (input.matches \ input.dead) # {})
  => /\ Len(result) = 1
     /\ result[1] \notin Range(playSelectors)
     /\ result[1] =
          clickFirst(input, IF input.action = "next" THEN nextSelectors
                            ELSE prevSelectors, 1)

\* ------------------------------------------------------------------------
\* C32 (as stated): when a setTime, setVolume or mute command on a virtual
\* handle cannot be carried out, because the page has no progress bar or
\* every way of seeking on it fails, or has no volume bar, or no mute
\* button, the shadow state _currentTime, _volume, _muted is what it was.
\* (handleControlCommand wraps the whole command in try/catch, so the step is
\* total: no error leaves it.)
ShadowState(a) == <<a.virtual.currentTime, a.virtual.volume, a.virtual.muted>>
CannotBeCarriedOut(op) ==
  \/ op = "setTime" /\ page.progressBar # "works"
  \/ op = "setVolume" /\ page.volumeBar = "none"
  \/ op = "mute" /\ page.muteButton = "none"
FailedCommandKeepsShadowState ==
  [][IsVirtualElement(agent.mediaElement) /\ CannotBeCarriedOut(ev'.op)
       => ShadowState(agent') = ShadowState(agent)]_vars
\* the same for setTime and mute alone, which holds
FailedSeekOrMuteKeepsShadowState ==
  [][IsVirtualElement(agent.mediaElement) /\ ev'.op \in {"setTime", "mute"}
       /\ CannotBeCarriedOut(ev'.op)
       => ShadowState(agent') = ShadowState(agent)]_vars

\* ------------------------------------------------------------------------
\* C40 (as stated): the snapshot the agent emits after handling setVolume(v)
\* on a virtual handle reports the volume v clamped to 0..1, for every v,
\* 0 included, and its paused flag is the handle's own paused flag.
VolumeCommandSnapshot ==
  /\ ev'.op = "setVolume"
  /\ IsVirtualElement(agent.mediaElement)
  /\ "volume" \in DOMAIN ev'.params
  /\ ev'.snapshots # <<>>
SnapshotReportsHandle ==
  [][VolumeCommandSnapshot
       => /\ ev'.snapshots[1].state.volume = Clamp(ev'.params.volume)
          /\ ev'.snapshots[1].state.paused = agent'.virtual.paused]_vars
\* the volume alone, for the volumes that clamp to more than 0, which holds
SnapshotReportsPositiveVolume ==
  [][VolumeCommandSnapshot /\ Clamp(ev'.params.volume) > 0
       => ev'.snapshots[1].state.volume = Clamp(ev'.params.volume)]_vars
\* the volume alone, for every volume
SnapshotReportsVolume ==
  [][VolumeCommandSnapshot
       => ev'.snapshots[1].state.volume = Clamp(ev'.params.volume)]_vars
\* the paused flag alone
SnapshotReportsHandlePaused ==
  [][VolumeCommandSnapshot
       => ev'.snapshots[1].state.paused = agent'.virtual.paused]_vars

\* ------------------------------------------------------------------------
\* C39 (as stated): whenever the agent has a handle, the agent's isVirtual
\* flag is the handle's isVirtual property, and at most one 1-second polling
\* timer of startSpotifyMonitoring is running.
FlagIsTheHandles ==
  agent.mediaElement # NoElement
    => agent.isVirtual = IsVirtualElement(agent.mediaElement)
OnePollingTimer == agent.monitors <= 1
VirtualFlagAndOneTimer ==
  /\ OnePollingTimer
  /\ FlagIsTheHandles

\* ------------------------------------------------------------------------
\* C33 (as stated): once a tab has been removed and no lookup and no command
\* is in flight any more, the registry holds no session of that tab, also
\* when a snapshot of the tab was received before the removal and its tab
\* lookup completes around the removal.
Quiescent == lookups = <<>> /\ commands = <<>>
NoSessionOfRemovedTab ==
  Quiescent => \A i \in 1..Len(sessions) : sessions[i].tabId \in openTabs

\* ------------------------------------------------------------------------
\* C34 (as stated): if the snapshots of a session stop arriving while the
\* popup stays connected, the popup's mirror of the session is in the end
\* the record the coordinator stores: what a throttled snapshot carried
\* (a volume, say) still reaches the popup.
Mirrored ==
  "popup" \in ports =>
    \A i \in 1..Len(sessions) :
      /\ sessions[i].id \in DOMAIN popupSessions
      /\ popupSessions[sessions[i].id] = sessions[i]
SnapshotsStop == <>[][ev'.op # "updateSession"]_vars
MirrorCatchesUp == SnapshotsStop => <>[]Mirrored
\* what the popup holds is what the last broadcast carried, whatever was
\* stored since
MirrorHoldsLastBroadcast ==
  [][ev'.op = "SESSION_UPDATED"
       => popupSessions'[ev'.id] = Head(out).msg.session]_vars

\* ------------------------------------------------------------------------
\* C35 (as stated): however the response of GET_SESSIONS and the messages of
\* the port interleave during the popup's start-up, once everything in
\* flight is delivered the popup's mirror holds no session the coordinator
\* has removed, and the response never puts a record in the mirror that is
\* older than what the port had delivered for the session.
StartedUp == "popup" \in ports /\ result # Null /\ out = <<>>
NoRemovedSessionMirrored ==
  StartedUp => DOMAIN popupSessions \subseteq Ids(sessions)
ResponseBringsNothingOlder ==
  [][ev'.op = "GET_SESSIONS" =>
       \A id \in DOMAIN popupSessions \cap DOMAIN popupSessions' :
         popupSessions'[id].state.currentTime
           >= popupSessions[id].state.currentTime]_vars
StartupMirrorsRegistry ==
  [][/\ NoRemovedSessionMirrored'
     /\ ev'.op = "GET_SESSIONS" =>
          \A id \in DOMAIN popupSessions \cap DOMAIN popupSessions' :
            popupSessions'[id].state.currentTime
              >= popupSessions[id].state.currentTime]_vars

\* ------------------------------------------------------------------------
\* C37 (as stated): when 1000 ms have passed since the last toggle of a
\* session and nothing further is commanded, the paused state the popup
\* shows for the session is in the end the paused state of the registry,
\* also when the toggle changed nothing or the coordinator's broadcast came
\* within the 1000 ms.
WindowPassed(id) ==
  /\ id \in DOMAIN toggled
  /\ now - toggled[id].timestamp >= OptimisticWindowMs
ShowsRegistryState(id) ==
  (id \in DOMAIN cards /\ cards[id].live /\ Has(sessions, id))
    => cards[id].isPaused = Get(sessions, id).state.paused
Calm == <>[][ev'.op \notin {"toggle", "updateSession"}]_vars
ToggleSettles ==
  Calm => <>[](WindowPassed(MirrorContext) => ShowsRegistryState(MirrorContext))

\* ------------------------------------------------------------------------
\* C38 (as stated): the time sent in setTime when a drag ends is the dragged
\* fraction of the duration in the popup's current mirror record of the
\* session, also when SESSION_UPDATED changed the duration after the card
\* was made.
OneDragOf(id) ==
  /\ Len(drags) = 1
  /\ drags[1].id = id
  /\ id \in DOMAIN cards
  /\ id \in DOMAIN popupSessions
SetTimeOfMirrorDuration ==
  [][ev'.op = "dragEnd" /\ OneDragOf(DragId)
       => ev'.posted[1].data.params.time
            = (cards[DragId].progress.fill
                 * popupSessions[DragId].state.duration) \div 100]_vars
\* the time sent is the dragged fraction of the duration the card was made
\* with, which holds
SetTimeOfCardDuration ==
  [][ev'.op = "dragEnd" /\ OneDragOf(DragId)
       => ev'.posted[1].data.params.time
            = (cards[DragId].progress.fill
                 * cards[DragId].session.state.duration) \div 100]_vars

\* ------------------------------------------------------------------------
\* C36 (as stated): every suppression of snapshots that beginSeek starts
\* ends: whatever happens, the popup closing during the drag or two drags
\* of the session at once included, the agent's seek-in-progress flag is
\* false again at some time.
SuppressionEnds == agent.seekInProgress ~> ~agent.seekInProgress
\* endSeek lifts the suppression and reports at once
EndSeekReports ==
  [][ev'.op = "endSeek" => ~agent'.seekInProgress /\ ev'.sent > 0]_vars
\* while it is suppressed the agent reports nothing
SuppressedReportsNothing ==
  [][agent.seekInProgress /\ agent'.seekInProgress /\ "sent" \in DOMAIN ev'
       => ev'.sent = 0]_vars

====
